---- MODULE Spec2Model ----
(***************************************************************************)
(* NewsBot: feed ingestion, identity resolution, the news ledger, the      *)
(* subscription registry and the periodic / on-demand delivery sweeps.     *)
(*                                                                         *)
(* Strings are sequences of one-character strings, so that trimming,       *)
(* lower-casing and URL splitting are computed the way the program         *)
(* computes them.  A link has the shape  scheme ":" host path ["?" query]  *)
(* with a one-letter scheme ("h" stands for https) and a one-letter host.  *)
(***************************************************************************)
EXTENDS Integers, Sequences, FiniteSets, TLC

(***************************************************************************)
(* Strings                                                                 *)
(***************************************************************************)
NoStr == <<>>

\* the ASCII letters, capital and small
Upper ==
  <<"A", "B", "C", "D", "E", "F", "G", "H", "I", "J", "K", "L", "M", "N",
    "O", "P", "Q", "R", "S", "T", "U", "V", "W", "X", "Y", "Z">>
Lower ==
  <<"a", "b", "c", "d", "e", "f", "g", "h", "i", "j", "k", "l", "m", "n",
    "o", "p", "q", "r", "s", "t", "u", "v", "w", "x", "y", "z">>

\* capital letter -> small letter
Folding == [c \in {Upper[n] : n \in 1..26} |->
              Lower[CHOOSE n \in 1..26 : Upper[n] = c]]

\* String.prototype.toLowerCase / SQLite NOCASE folding of one ASCII character
LowerChar(c) == IF c \in DOMAIN Folding THEN Folding[c] ELSE c

toLowerCase(s) == [i \in 1..Len(s) |-> LowerChar(s[i])]

RECURSIVE trimStart(_)
trimStart(s) == IF s # <<>> /\ Head(s) = " " THEN trimStart(Tail(s)) ELSE s

RECURSIVE trimEnd(_)
trimEnd(s) ==
  IF s # <<>> /\ s[Len(s)] = " " THEN trimEnd(SubSeq(s, 1, Len(s) - 1)) ELSE s

trim(s) == trimEnd(trimStart(s))

\* first position of a character of cs in s at or after from, Len(s)+1 if none
IndexOfAny(s, cs, from) ==
  LET hits == {i \in from..Len(s) : s[i] \in cs}
  IN  IF hits = {} THEN Len(s) + 1 ELSE CHOOSE i \in hits : \A j \in hits : i <= j

(***************************************************************************)
(* new URL(link): parses when the text starts with the scheme "h:"; the    *)
(* origin is scheme and host lower-cased, the pathname keeps its case and  *)
(* ends before the query or fragment; an empty path is "/".                *)
(***************************************************************************)
UrlParses(s) == Len(s) >= 3 /\ LowerChar(s[1]) = "h" /\ s[2] = ":"
                /\ s[3] \notin {"/", "?", "#", " "}

UrlHostEnd(s) == IndexOfAny(s, {"/", "?", "#"}, 3)

UrlOrigin(s) == toLowerCase(SubSeq(s, 1, UrlHostEnd(s) - 1))

UrlPathname(s) ==
  LET b == UrlHostEnd(s)
      e == IndexOfAny(s, {"?", "#"}, b)
  IN  IF b > Len(s) \/ s[b] # "/" THEN <<"/">> ELSE SubSeq(s, b, e - 1)

(***************************************************************************)
(* Identity resolver                                                       *)
(***************************************************************************)
Unknown == <<"u", "n", "k", "n", "o", "w", "n">>
NoTitle == <<"N", "o", " ", "t", "i", "t", "l", "e">>

\* a field a fetched item does not have (undefined); it is no string
Undefined == <<"undefined">>

\* !x for a string or an absent field
Falsy(x) == x = NoStr \/ x = Undefined

\* x || y
OrElse(x, y) == IF Falsy(x) THEN y ELSE x

\* an identifier that prefers the source guid to the link
generateGuidGuidFirst(item) ==
  IF ~Falsy(item.guid) THEN item.guid
  ELSE IF ~Falsy(item.link)
       THEN IF UrlParses(item.link)
            THEN UrlOrigin(item.link) \o UrlPathname(item.link)
            ELSE item.link
  ELSE OrElse(item.title, Unknown)

generateGuid(item) ==
  IF ~Falsy(item.link)
  THEN IF UrlParses(item.link)
       THEN UrlOrigin(item.link) \o UrlPathname(item.link)
       ELSE item.link
  ELSE IF ~Falsy(item.guid) THEN item.guid
  ELSE OrElse(item.title, Unknown)

normalizeTitle(title) == IF Falsy(title) THEN NoStr ELSE toLowerCase(trim(title))

\* a link that is only lower-cased
normalizeLinkKeepQuery(link) == IF Falsy(link) THEN NoStr ELSE toLowerCase(link)

normalizeLink(link) ==
  IF Falsy(link) THEN NoStr
  ELSE IF UrlParses(link)
       THEN toLowerCase(UrlOrigin(link) \o UrlPathname(link))
       ELSE toLowerCase(link)

(***************************************************************************)
(* News ledger (table news).  The table is a sequence indexed by the       *)
(* AUTOINCREMENT id; rows are never deleted.                               *)
(***************************************************************************)
\* the length above which a title takes part in title matching
TitleMinLen == 10

NoRow == [id |-> 0, guid |-> NoStr, title |-> NoStr, link |-> NoStr,
          feedUrl |-> NoStr, isSent |-> 0]

Rows(tbl) == {tbl[i] : i \in 1..Len(tbl)}

\* stmt.get(): the first row of the result, in rowid order
FirstRow(rs) ==
  IF rs = {} THEN NoRow ELSE CHOOSE r \in rs : \A q \in rs : r.id <= q.id

\* x = y COLLATE NOCASE
NoCaseEq(x, y) == toLowerCase(x) = toLowerCase(y)

\* SELECT * FROM news WHERE guid = ?
SelectByGuid(tbl, guid) == FirstRow({r \in Rows(tbl) : r.guid = guid})

\* SELECT * FROM news WHERE link = ? OR link = ? COLLATE NOCASE
\* bound to (normalizeLink(link), link)
SelectByLink(tbl, link) ==
  FirstRow({r \in Rows(tbl) : r.link = normalizeLink(link) \/ NoCaseEq(r.link, link)})

\* SELECT * FROM news WHERE title = ? COLLATE NOCASE, bound to normalizeTitle(title)
SelectByTitle(tbl, title) ==
  FirstRow({r \in Rows(tbl) : NoCaseEq(r.title, normalizeTitle(title))})

\* the three lookups with titles of any length taking part in the third
findExistingNewsAnyTitle(tbl, guid, title, link) ==
  LET byGuid == SelectByGuid(tbl, guid)
      byLink == SelectByLink(tbl, link)
  IN  IF ~Falsy(guid) /\ byGuid # NoRow THEN byGuid
      ELSE IF ~Falsy(link) /\ trim(link) # NoStr /\ byLink # NoRow THEN byLink
      ELSE SelectByTitle(tbl, title)

\* the three lookups in the opposite order
findExistingNewsTitleFirst(tbl, guid, title, link) ==
  LET byGuid == SelectByGuid(tbl, guid)
      byLink == SelectByLink(tbl, link)
      byTitle == SelectByTitle(tbl, title)
  IN  IF ~Falsy(title) /\ Len(title) > TitleMinLen /\ byTitle # NoRow THEN byTitle
      ELSE IF ~Falsy(link) /\ trim(link) # NoStr /\ byLink # NoRow THEN byLink
      ELSE IF ~Falsy(guid) /\ byGuid # NoRow THEN byGuid
      ELSE NoRow

\* the three lookups in order, the first hit wins
findExistingNews(tbl, guid, title, link) ==
  LET byGuid == SelectByGuid(tbl, guid)
      byLink == SelectByLink(tbl, link)
      byTitle == SelectByTitle(tbl, title)
  IN  IF ~Falsy(guid) /\ byGuid # NoRow THEN byGuid
      ELSE IF ~Falsy(link) /\ trim(link) # NoStr /\ byLink # NoRow THEN byLink
      ELSE IF ~Falsy(title) /\ Len(title) > TitleMinLen /\ byTitle # NoRow
           THEN byTitle
      ELSE NoRow

\* INSERT INTO news (guid, title, link, feedUrl): fails on a duplicate guid
\* (UNIQUE) and on a feedUrl that is not a value (NOT NULL / unbindable)
InsertFails(tbl, guid, feedUrl) ==
  feedUrl = Undefined \/ SelectByGuid(tbl, guid) # NoRow

\* insertNews: [tbl |-> the table afterwards, rec |-> the row returned or NoRow]
insertNews(tbl, guid, title, link, feedUrl) ==
  LET existing == findExistingNews(tbl, guid, title, link)
      row == [id |-> Len(tbl) + 1, guid |-> guid, title |-> title, link |-> link,
              feedUrl |-> feedUrl, isSent |-> 0]
  IN  IF existing # NoRow THEN [tbl |-> tbl, rec |-> existing]
      ELSE IF InsertFails(tbl, guid, feedUrl)
           THEN LET existingCheck == findExistingNews(tbl, guid, title, link)
                IN  [tbl |-> tbl,
                     rec |-> IF existingCheck # NoRow THEN existingCheck
                             ELSE SelectByGuid(tbl, guid)]
           ELSE [tbl |-> Append(tbl, row), rec |-> row]

isNewsSent(tbl, guid, title, link) ==
  LET existing == findExistingNews(tbl, guid, title, link)
  IN  existing # NoRow /\ existing.isSent = 1

\* the ids of the rows of a set
Ids(rs) == {r.id : r \in rs}

\* UPDATE news SET isSent = 1 WHERE <row id in ids> AND isSent = 0
UpdateSent(tbl, ids) ==
  [i \in 1..Len(tbl) |->
     IF i \in ids /\ tbl[i].isSent = 0 THEN [tbl[i] EXCEPT !.isSent = 1] ELSE tbl[i]]

\* result.changes of that UPDATE
Changes(tbl, ids) ==
  Cardinality({i \in 1..Len(tbl) : i \in ids /\ tbl[i].isSent = 0})

\* UPDATE news SET isSent = 1 WHERE id = ?, without the isSent = 0 condition
claimUnconditional(tbl, dbId) ==
  [tbl |-> [i \in 1..Len(tbl) |->
              IF i = dbId THEN [tbl[i] EXCEPT !.isSent = 1] ELSE tbl[i]],
   marked |-> dbId \in 1..Len(tbl)]

\* a claim that reports the change and does not store it
claimWithoutWrite(tbl, dbId) ==
  [tbl |-> tbl, marked |-> dbId \in 1..Len(tbl) /\ tbl[dbId].isSent = 0]

\* a claim keyed by the row's link instead of its id
claimByLink(tbl, dbId) ==
  LET same == IF dbId \in 1..Len(tbl)
              THEN {i \in 1..Len(tbl) : normalizeLink(tbl[i].link) = normalizeLink(tbl[dbId].link)}
              ELSE {}
  IN  [tbl |-> UpdateSent(tbl, same), marked |-> Changes(tbl, same) > 0]

\* UPDATE news SET isSent = 1 WHERE id = ? AND isSent = 0
\* [tbl |-> the table afterwards, marked |-> result.changes > 0]
claimForSending(tbl, dbId) ==
  [tbl |-> UpdateSent(tbl, {dbId}), marked |-> Changes(tbl, {dbId}) > 0]

\* markNewsAsSent: marks the resolved row by guid, then every row whose
\* LOWER(link) or link, or LOWER(TRIM(title)), coincides
markNewsAsSent(tbl, guid, title, link) ==
  LET existing == findExistingNews(tbl, guid, title, link)
      ByGuid == Ids({r \in Rows(tbl) : r.guid = existing.guid})
      ByLink == Ids({r \in Rows(tbl) :
                      toLowerCase(r.link) = normalizeLink(link) \/ r.link = link})
      ByTitle == Ids({r \in Rows(tbl) :
                       toLowerCase(trim(r.title)) = normalizeTitle(title)})
      t1 == UpdateSent(tbl, ByGuid)
      t2 == IF ~Falsy(link) /\ trim(link) # NoStr THEN UpdateSent(t1, ByLink) ELSE t1
      t3 == IF ~Falsy(title) /\ Len(title) > TitleMinLen
            THEN UpdateSent(t2, ByTitle) ELSE t2
  IN  IF existing = NoRow THEN [tbl |-> tbl, marked |-> FALSE]
      ELSE [tbl |-> t3, marked |-> Changes(tbl, ByGuid) > 0]
(***************************************************************************)
(* Configuration and environment                                           *)
(***************************************************************************)
MAX_NEWS_PER_FEED == 10
MAX_MANUAL_NEWS == 5

Chats == {"c1", "c2"}
Periodic == {"p1", "p2"}      \* two runs of checkForNewNews may overlap
Manual == {"m1"}              \* a /news request in progress
Procs == Periodic \cup Manual

\* total number of sweep invocations started in one behaviour
MaxRuns == 2

\* total number of calls of the claim statements in one behaviour of the
\* claim harness
MaxCallers == 3

\* total number of subscription commands received in one behaviour
MaxCmds == 1

\* bot.sendMessage: resolved (200) or rejected with the response status
SendResults == {200, 400, 403, 500}

Item(guid, title, link, snippet) ==
  [guid |-> guid, title |-> title, link |-> link, contentSnippet |-> snippet]

LongTitle == <<"B", "r", "e", "a", "k", "i", "n", "g", " ", "n", "e", "w", "s">>
OtherTitle == <<"A", "n", "o", "t", "h", "e", "r", " ", "s", "t", "o", "r", "y">>
ShortTitle == <<"N", "e", "w", "s">>

Feed(name, url) ==
  [name |-> name, url |-> url, type |-> Undefined, source |-> Undefined,
   subreddit |-> Undefined]

UrlF == <<"h", ":", "f">>
UrlG == <<"h", ":", "g">>
UrlE == <<"h", ":", "e">>
UrlL == <<"h", ":", "l">>
UrlH == <<"h", ":", "h">>
UrlS == <<"h", ":", "s">>
FeedF == Feed(<<"F">>, UrlF)
FeedG == Feed(<<"G">>, UrlG)
FeedE == Feed(<<"E">>, UrlE)
FeedL == Feed(<<"L">>, UrlL)
FeedH == Feed(<<"H">>, UrlH)
FeedS == Feed(<<"S">>, UrlS)
UrlY == <<"h", ":", "y">>
FeedY == Feed(<<"Y">>, UrlY)
UrlK == <<"h", ":", "k">>
FeedK == Feed(<<"K">>, UrlK)
\* a second feed of rss-feeds.json whose name differs from FeedG's in case only
FeedGg == Feed(<<"g">>, UrlH)

LinkA1 == <<"h", ":", "x", "/", "a", "?", "1">>
LinkA2 == <<"h", ":", "x", "/", "a", "?", "2">>
LinkB == <<"h", ":", "x", "/", "b">>
LinkUp == <<"h", ":", "x", "/", "A", "?", "1">>
LinkS == <<"h", ":", "x", "/", "s">>
LinkT == <<"h", ":", "x", "/", "t">>

ItemA1 == Item(<<"g", "1">>, LongTitle, LinkA1, NoStr)
ItemA2 == Item(<<"g", "1">>, LongTitle, LinkA2, NoStr)
ItemB == Item(Undefined, OtherTitle, LinkB, NoStr)
\* the link of ItemA2 with another letter case in the path, another title
ItemUp == Item(Undefined, OtherTitle, LinkUp, NoStr)
\* two items with one short title and different links
ItemS == Item(Undefined, ShortTitle, LinkS, NoStr)
ItemT == Item(Undefined, ShortTitle, LinkT, NoStr)
\* two items without a title, with different links
ItemNs == Item(Undefined, Undefined, LinkS, NoStr)
ItemNt == Item(Undefined, Undefined, LinkT, NoStr)
\* the link of ItemA1 under another query with the title of ItemB; an item at
\* h:x/C and one at h:x/c with the title of ItemA1
ItemQ1 == Item(Undefined, OtherTitle, LinkA2, NoStr)
ItemV == Item(Undefined, ShortTitle, <<"h", ":", "x", "/", "C">>, NoStr)
ItemQ2 == Item(Undefined, LongTitle, <<"h", ":", "x", "/", "c">>, NoStr)
\* two items with one short title and neither link nor guid
ItemU1 == Item(Undefined, ShortTitle, Undefined, <<"1">>)
ItemU2 == Item(Undefined, ShortTitle, Undefined, <<"2">>)

\* links of every shape: with and without the scheme, host in either case,
\* with and without a path, a query or a fragment; absent and empty links
IdLinks ==
  {scheme \o host \o path \o tail :
     scheme \in {NoStr, <<"h", ":">>}, host \in {<<"x">>, <<"X">>},
     path \in {NoStr, <<"/", "A">>},
     tail \in {NoStr, <<"?", "1">>, <<"#", "f">>}} \cup {Undefined, NoStr}

\* titles: absent, empty, padded and in capitals, longer than 10 characters
IdTitles == {Undefined, NoStr, <<" ", "N", " ">>, LongTitle}

\* source guids: absent or present
IdGuids == {Undefined, <<"g", "1">>}

UrlN == <<"h", ":", "n">>
FeedN == Feed(<<"N">>, UrlN)

\* the documents a feed address may serve when it is fetched
Served(url) ==
  CASE url = UrlF -> {<<ItemA1, ItemA2, ItemB>>}
    [] url = UrlG -> {<<ItemB>>}
    [] url = UrlH -> {<<ItemS>>}
    [] url = UrlS -> {<<ItemB>>, <<ItemNs>>, <<ItemU1>>}
    [] url = UrlE -> {<<ItemA1>>, <<ItemA2>>}
    [] url = UrlL -> {<<ItemUp, ItemA2, ItemS, ItemT>>,
                      <<ItemU1, ItemU2, ItemNs, ItemNt>>}
    [] url = UrlK -> {<<ItemA1, ItemB, ItemQ1, ItemV, ItemQ2>>}
    [] url = UrlY -> {<<ItemS, ItemUp, ItemA2>>}
    [] url = UrlN -> {<<Item(g, t, l, NoStr)>> :
                        g \in IdGuids, t \in IdTitles, l \in IdLinks}
    [] OTHER -> {}

(***************************************************************************)
(* State                                                                   *)
(***************************************************************************)
VARIABLES
  rssFeeds,         \* the configured feeds, in order
  db,               \* table news
  chatIds,          \* global subscribers
  feedSubscribers,  \* normalized feed name -> set of chats
  sweep,            \* per invocation slot: position and locals of the sweep
  running,          \* the invocation executing synchronous code, or "none"
  runs,             \* sweep invocations started so far
  cmds,             \* subscription commands received so far
  sends,            \* history: messages handed to bot.sendMessage by sweeps
  claims,           \* history: the id-keyed claims made and their results
  resolved,         \* history: (item, row id) of every insertNews call
  joined,           \* history: (chat, set) of every registry addition
  settings,         \* table settings: the Reddit credential fields
  now,              \* Date.now(), in minutes
  redditStates,     \* the Map chat -> pending authorization state, as pairs
  exchanges,        \* the chats whose /reddit_code awaits the token endpoint
  env               \* process.env: which of the Reddit secrets are set

vars == <<rssFeeds, db, chatIds, feedSubscribers, sweep, running, runs, cmds,
          sends, claims, resolved, joined, settings, now, redditStates,
          exchanges, env>>

Idle == [pc |-> "idle", run |-> 0, feed |-> 0, items |-> <<>>, i |-> 0,
         newItems |-> <<>>, k |-> 0, subscribers |-> {}, rest |-> {},
         chatId |-> "none", newsFound |-> 0, token |-> NoStr, stage |-> "none"]

(***************************************************************************)
(* Subscription registry                                                   *)
(***************************************************************************)
\* a feed name trimmed and left in its letter case
normalizeFeedNameKeepCase(name) == trim(OrElse(name, NoStr))

normalizeFeedName(name) == toLowerCase(trim(OrElse(name, NoStr)))

\* the index of the first feed whose normalized name matches, 0 if none
findFeedByName(feeds, name) ==
  LET hits == {n \in 1..Len(feeds) :
                 normalizeFeedName(feeds[n].name) = normalizeFeedName(name)}
  IN  IF hits = {} THEN 0 ELSE CHOOSE n \in hits : \A m \in hits : n <= m

specificSubs(fs, key) == IF key \in DOMAIN fs THEN fs[key] ELSE {}

\* every subscriber of anything, whatever the feed
getAllSubscribers(global, fs, feedName) ==
  global \cup UNION {fs[key] : key \in DOMAIN fs}

getSubscribersForFeed(global, fs, feedName) ==
  global \cup specificSubs(fs, normalizeFeedName(feedName))

\* per-feed sets that keep the chat
keepFeedSubscriptions(fs, chatId) == fs

removeChatFromFeedSubscriptions(fs, chatId) ==
  [key \in DOMAIN fs |-> fs[key] \ {chatId}]

\* the feeds getFeedsForChat returns for a chat, as the set of their names
getFeedsForChat(feeds, global, fs, chatId) ==
  IF chatId \in global THEN {feeds[n].name : n \in 1..Len(feeds)}
  ELSE {LET n == findFeedByName(feeds, feedKey)
        IN  IF n = 0 THEN feedKey ELSE feeds[n].name :
          feedKey \in {key \in DOMAIN fs : chatId \in fs[key]}}

\* the commands of one behaviour; the registry on its own takes two more
CmdLimit == IF rssFeeds = <<FeedG, FeedH>> THEN MaxCmds + 2 ELSE MaxCmds

\* the name of the global set in the history of additions
GlobalSet == <<"global">>

\* /start
CmdStart(c) ==
  /\ running = "none"
  /\ cmds < CmdLimit
  /\ cmds' = cmds + 1
  /\ chatIds' = chatIds \cup {c}
  /\ joined' = joined \cup {<<c, GlobalSet>>}
  /\ UNCHANGED <<env, redditStates, exchanges,
                 rssFeeds, settings, now, db, feedSubscribers, sweep, running,
                 runs, sends, claims, resolved>>

\* /stop
CmdStop(c) ==
  /\ running = "none"
  /\ cmds < CmdLimit
  /\ cmds' = cmds + 1
  /\ chatIds' = chatIds \ {c}
  /\ feedSubscribers' = removeChatFromFeedSubscriptions(feedSubscribers, c)
  /\ UNCHANGED <<env, redditStates, exchanges,
                 rssFeeds, settings, now, db, sweep, running, runs, sends,
                 claims, resolved, joined>>

\* /follow <feed_name>
CmdFollow(c, text) ==
  /\ running = "none"
  /\ cmds < CmdLimit
  /\ cmds' = cmds + 1
  /\ LET feedName == trim(text)
         n == findFeedByName(rssFeeds, feedName)
         key == normalizeFeedName(rssFeeds[n].name)
     IN  IF feedName = NoStr \/ n = 0
         THEN UNCHANGED <<feedSubscribers, joined>>
         ELSE /\ feedSubscribers' =
                   (key :> (specificSubs(feedSubscribers, key) \cup {c})) @@ feedSubscribers
              /\ joined' = joined \cup {<<c, key>>}
  /\ UNCHANGED <<env, redditStates, exchanges,
                 rssFeeds, settings, now, db, chatIds, sweep, running, runs,
                 sends, claims, resolved>>

\* the subscription commands, /follow with one of the given texts
Commands(texts) ==
  \E c \in Chats :
    CmdStart(c) \/ CmdStop(c) \/ \E text \in texts : CmdFollow(c, text)

(***************************************************************************)
(* Sweeps: shared steps                                                    *)
(***************************************************************************)
Reddit == <<"r", "e", "d", "d", "i", "t">>

isRedditFeed(feedConfig) == toLowerCase(OrElse(feedConfig.type, NoStr)) = Reddit

Slice(s, n) == SubSeq(s, 1, IF Len(s) < n THEN Len(s) ELSE n)

\* the sweep's locals once the current feed is finished: on to the next feed's
\* fetch, or the end of the sweep
NextFeed(s) ==
  IF s.feed < Len(rssFeeds)
  THEN [Idle EXCEPT !.pc = "fetch", !.run = s.run, !.feed = s.feed + 1,
                    !.chatId = s.chatId, !.newsFound = s.newsFound]
  ELSE [Idle EXCEPT !.run = s.run, !.newsFound = s.newsFound]

\* the positions at which a sweep awaits and other handlers may run
Yields(s) == s.pc \in {"idle", "fetch", "aborted"}

FetchLimit(p) == IF p \in Periodic THEN MAX_NEWS_PER_FEED ELSE MAX_MANUAL_NEWS

\* what follows `const items = await fetchFeedItems(feedConfig, limit)`
AfterFetch(p, fetched) ==
  IF fetched = <<>>
  THEN /\ sweep' = [sweep EXCEPT ![p] = NextFeed(sweep[p])]
       /\ running' = "none"
  ELSE /\ sweep' = [sweep EXCEPT ![p].pc = "scan", ![p].i = 1, ![p].newItems = <<>>,
                                 ![p].items = Slice(fetched, FetchLimit(p)),
                                 ![p].token = NoStr]
       /\ running' = p

\* an RSS fetch whose failure is thrown on to the sweep
FetchRssThrows(p) ==
  /\ running = "none"
  /\ sweep[p].pc = "fetch"
  /\ ~isRedditFeed(rssFeeds[sweep[p].feed])
  /\ \/ \E fetched \in Served(rssFeeds[sweep[p].feed].url) : AfterFetch(p, fetched)
     \/ /\ sweep' = [sweep EXCEPT ![p] =
                       [Idle EXCEPT !.pc = IF p \in Periodic THEN "aborted" ELSE "idle",
                                    !.run = sweep[p].run]]
        /\ running' = "none"
  /\ UNCHANGED <<env, redditStates, exchanges,
                 rssFeeds, settings, now, db, chatIds, feedSubscribers, runs,
                 cmds, sends, claims, resolved, joined>>

\* fetchFeedItems for an RSS feed: parser.parseURL resolves with the document's
\* items, or rejects and the catch block returns []
FetchRss(p) ==
  /\ running = "none"
  /\ sweep[p].pc = "fetch"
  /\ ~isRedditFeed(rssFeeds[sweep[p].feed])
  /\ \E fetched \in Served(rssFeeds[sweep[p].feed].url) \cup {<<>>} :
       AfterFetch(p, fetched)
  /\ UNCHANGED <<env, redditStates, exchanges,
                 rssFeeds, settings, now, db, chatIds, feedSubscribers, runs,
                 cmds, sends, claims, resolved, joined>>

\* the record of one insertNews call, for the history
Resolution(item, rec) == [item |-> item, rec |-> rec.id]

\* the record of one id-keyed claim, for the history: the row's flag before the
\* claim (2 when there is no such row) and the claim's result
ClaimRecord(tbl, dbId, by, marked) ==
  [rec |-> dbId, by |-> by, marked |-> marked,
   was |-> IF dbId \in 1..Len(tbl) THEN tbl[dbId].isSent ELSE 2]

\* the next message handed to bot.sendMessage; n counts the earlier messages
\* for the same row to the same chat
SendRecord(p, dbId, chatId) ==
  [rec |-> dbId, chat |-> chatId, by |-> sweep[p].run, proc |-> p,
   feed |-> sweep[p].feed,
   n |-> Cardinality({m \in sends : m.rec = dbId /\ m.chat = chatId})]

(***************************************************************************)
(* Periodic sweep: checkForNewNews                                         *)
(***************************************************************************)
\* the number of sweep invocations one behaviour may start; the end-to-end
\* trace takes one more than the others, the registry and the identity
\* resolver one fewer
RunLimit ==
  IF rssFeeds = <<FeedE>> THEN MaxRuns + 1
  ELSE IF rssFeeds \in {<<FeedG, FeedH>>, <<FeedN>>} THEN MaxRuns - 1
  ELSE MaxRuns

\* a claim that never succeeds
ClaimNothing(tbl, e) == [tbl |-> tbl, marked |-> FALSE]

\* a periodic sweep whose promise was rejected is never followed by another
PeriodicAborted == \E q \in Periodic : sweep[q].pc = "aborted"

\* the initial check or a tick of setInterval; the second slot serves a run that
\* starts while the first is still in progress
StartPeriodic(p) ==
  /\ running = "none"
  /\ sweep[p].pc = "idle"
  /\ (p = "p2" => sweep["p1"].pc # "idle")
  /\ runs < RunLimit
  /\ ~PeriodicAborted
  /\ runs' = runs + 1
  /\ sweep' = [sweep EXCEPT ![p] =
                 IF rssFeeds = <<>> THEN [Idle EXCEPT !.run = runs + 1]
                 ELSE [Idle EXCEPT !.pc = "fetch", !.run = runs + 1, !.feed = 1]]
  /\ UNCHANGED <<env, redditStates, exchanges,
                 rssFeeds, settings, now, db, chatIds, feedSubscribers,
                 running, cmds, sends, claims, resolved, joined>>

\* one iteration of `for (const item of itemsToCheck)`
ScanItem(p) ==
  /\ running = p
  /\ p \in Periodic
  /\ sweep[p].pc = "scan"
  /\ LET s == sweep[p]
         item == s.items[s.i]
         itemGuid == generateGuid(item)
         itemTitle == OrElse(item.title, NoTitle)
         itemLink == OrElse(item.link, NoStr)
         r == insertNews(db, itemGuid, itemTitle, itemLink, rssFeeds[s.feed].url)
         newsRecord == r.rec
         skip == \/ newsRecord = NoRow
                 \/ r.tbl[newsRecord.id].isSent = 1
                 \/ isNewsSent(r.tbl, newsRecord.guid, itemTitle, itemLink)
         entry == [item |-> item, guid |-> newsRecord.guid, title |-> itemTitle,
                   link |-> itemLink, dbId |-> newsRecord.id]
     IN  /\ db' = r.tbl
         /\ resolved' = resolved \cup {Resolution(item, newsRecord)}
         /\ sweep' = [sweep EXCEPT
              ![p].newItems = IF skip THEN @ ELSE Append(@, entry),
              ![p].i = @ + 1,
              ![p].pc = IF s.i = Len(s.items) THEN "resolve" ELSE "scan"]
  /\ UNCHANGED <<env, redditStates, exchanges,
                 rssFeeds, settings, now, chatIds, feedSubscribers, running,
                 runs, cmds, sends, claims, joined>>

\* a feed that is left only when the scan found nothing new
SkipsFeedWithoutItems(newItems, subscribers) == newItems = <<>>

\* `if (newItems.length === 0) continue` and `if (subscribers.size === 0) continue`
SkipsFeed(newItems, subscribers) == newItems = <<>> \/ subscribers = {}

\* after the scan: no new items, or no subscribers, ends the feed
ResolveSubscribers(p) ==
  /\ running = p
  /\ sweep[p].pc = "resolve"
  /\ LET s == sweep[p]
         subscribers == getSubscribersForFeed(chatIds, feedSubscribers,
                                              rssFeeds[s.feed].name)
     IN  IF SkipsFeed(s.newItems, subscribers)
         THEN /\ sweep' = [sweep EXCEPT ![p] = NextFeed(s)]
              /\ running' = "none"
         ELSE /\ sweep' = [sweep EXCEPT ![p].pc = "claim", ![p].k = 1,
                                        ![p].items = <<>>, ![p].i = 0,
                                        ![p].subscribers = subscribers]
              /\ running' = running
  /\ UNCHANGED <<env, redditStates, exchanges,
                 rssFeeds, settings, now, db, chatIds, feedSubscribers, runs,
                 cmds, sends, claims, resolved, joined>>

\* the sweep's locals after the fan-out loop's current entry: the next entry of
\* newItems, or the end of the feed
NextEntry(s) ==
  IF s.k < Len(s.newItems)
  THEN [s EXCEPT !.pc = "claim", !.k = s.k + 1, !.rest = {}, !.chatId = "none"]
  ELSE NextFeed(s)

\* a claim that reports success and marks nothing
ClaimReportOnly(tbl, e) == [tbl |-> tbl, marked |-> TRUE]

\* the claim of one entry of newItems: the id-keyed UPDATE, then markNewsAsSent
\* when that changed nothing
ClaimEntry(tbl, e) ==
  LET byId == IF e.dbId # 0 THEN claimForSending(tbl, e.dbId)
              ELSE [tbl |-> tbl, marked |-> FALSE]
  IN  IF byId.marked THEN byId ELSE markNewsAsSent(byId.tbl, e.guid, e.title, e.link)

\* one iteration of `for (const {...} of newItems)` up to the fan-out loop.
\* Every path through it evaluates item.title.substring(...), which throws when
\* the item has no title: the sweep's promise is then rejected.
ClaimItem(p) ==
  /\ running = p
  /\ sweep[p].pc = "claim"
  /\ LET s == sweep[p]
         e == s.newItems[s.k]
         alreadySent == \/ (e.dbId # 0 /\ e.dbId <= Len(db) /\ db[e.dbId].isSent = 1)
                        \/ isNewsSent(db, e.guid, e.title, e.link)
         c == ClaimEntry(db, e)
         throws == e.item.title = Undefined
         after == IF throws THEN [Idle EXCEPT !.pc = "aborted", !.run = s.run]
                  ELSE IF alreadySent \/ ~c.marked THEN NextEntry(s)
                  ELSE [s EXCEPT !.pc = "send", !.rest = s.subscribers]
     IN  /\ db' = IF alreadySent THEN db ELSE c.tbl
         /\ claims' = IF alreadySent THEN claims
                      ELSE claims \cup {ClaimRecord(db, e.dbId, s.run, c.marked)}
         /\ sweep' = [sweep EXCEPT ![p] = after]
         /\ running' = IF Yields(after) THEN "none" ELSE p
  /\ UNCHANGED <<env, redditStates, exchanges,
                 rssFeeds, settings, now, chatIds, feedSubscribers, runs, cmds,
                 sends, resolved, joined>>

\* `for (const chatId of subscribers)`: the next bot.sendMessage call, or the end
\* of the fan-out
SendCall(p) ==
  /\ running = p
  /\ sweep[p].pc = "send"
  /\ LET s == sweep[p]
     IN  IF s.rest = {}
         THEN /\ sweep' = [sweep EXCEPT ![p] = NextEntry(s)]
              /\ running' = IF Yields(NextEntry(s)) THEN "none" ELSE p
              /\ sends' = sends
         ELSE \E chatId \in s.rest :
                /\ sweep' = [sweep EXCEPT ![p].pc = "awaitSend", ![p].chatId = chatId,
                                          ![p].rest = s.rest \ {chatId}]
                /\ sends' = sends \cup {SendRecord(p, s.newItems[s.k].dbId, chatId)}
                /\ running' = "none"
  /\ UNCHANGED <<env, redditStates, exchanges,
                 rssFeeds, settings, now, db, chatIds, feedSubscribers, runs,
                 cmds, claims, resolved, joined>>

\* a registry that drops the chat after any rejected send
EvictOnAnyFailure(global, fs, chatId, status) ==
  [chatIds |-> global \ {chatId},
   feedSubscribers |-> removeChatFromFeedSubscriptions(fs, chatId)]

\* the registry after a rejected send: 403 and 400 remove the chat everywhere
EvictOnFailure(global, fs, chatId, status) ==
  IF status = 403 \/ status = 400
  THEN [chatIds |-> global \ {chatId},
        feedSubscribers |-> removeChatFromFeedSubscriptions(fs, chatId)]
  ELSE [chatIds |-> global, feedSubscribers |-> fs]

\* bot.sendMessage settles: counted (and the 300 ms pause taken), or the catch
\* block runs.  sentCount and totalSent are only logged and are not kept.
SendReturn(p, status) ==
  /\ running = "none"
  /\ p \in Periodic
  /\ sweep[p].pc = "awaitSend"
  /\ LET s == sweep[p]
         reg == EvictOnFailure(chatIds, feedSubscribers, s.chatId, status)
     IN  /\ sweep' = [sweep EXCEPT ![p].pc = "send", ![p].chatId = "none"]
         /\ IF status = 200
            THEN UNCHANGED <<chatIds, feedSubscribers>>
            ELSE /\ chatIds' = reg.chatIds
                 /\ feedSubscribers' = reg.feedSubscribers
  /\ running' = p
  /\ UNCHANGED <<env, redditStates, exchanges,
                 rssFeeds, settings, now, db, runs, cmds, sends, claims,
                 resolved, joined>>

(***************************************************************************)
(* Reddit adapter.  Time is counted in minutes: Date.now() is `now`, the   *)
(* 60 * 1000 ms margin is one unit and an expires_in of 3600 s is 60.      *)
(***************************************************************************)
\* the margin before the expiry at which the stored access token stops being used
ExpiryMargin == 1

\* data.expires_in || 3600
DefaultLifetime == 60

\* the last value of the clock in one behaviour
MaxNow == 2

\* table settings with no credential field stored; the expiry is kept as the
\* number it is read as, 0 for a missing row
NoSettings ==
  [reddit_refresh_token |-> Undefined, reddit_access_token |-> Undefined,
   reddit_access_expires_at |-> 0, reddit_username |-> Undefined]

Home == <<"h", "o", "m", "e">>
Saved == <<"s", "a", "v", "e", "d">>
Subreddit == <<"s", "u", "b", "r", "e", "d", "d", "i", "t">>

\* a feed of type reddit as rss-feeds.json declares it: no url
RedditFeed(name, source) ==
  [name |-> name, url |-> Undefined, type |-> Reddit, source |-> source,
   subreddit |-> Undefined]

FeedR == RedditFeed(<<"R">>, Saved)
\* a subreddit feed without the subreddit's name, a feed of an unknown source
FeedRs == RedditFeed(<<"Q">>, Subreddit)
FeedRx == RedditFeed(<<"Z">>, <<"x">>)

\* a post of a listing, mapped to an item
ItemP == Item(<<"r", "e", "d", "d", "i", "t", ":", "1">>, LongTitle,
              <<"h", ":", "r", "/", "p">>, NoStr)

\* the responses of the token endpoint to a refresh: rejected (not OK, or the
\* request fails), or a token with or without expires_in
RefreshResponses ==
  {[ok |-> FALSE, access_token |-> Undefined, expires_in |-> 0],
   [ok |-> TRUE, access_token |-> <<"a", "1">>, expires_in |-> 0],
   [ok |-> TRUE, access_token |-> <<"a", "2">>, expires_in |-> 2]}

\* the responses of /api/v1/me: rejected, or a body with or without a name
MeResponses ==
  {[ok |-> FALSE, name |-> Undefined], [ok |-> TRUE, name |-> <<"u">>],
   [ok |-> TRUE, name |-> Undefined]}

\* the outcomes of the listing request: the request fails (the promise of fetch
\* is rejected), a response that is not OK, a listing
ListingResponses ==
  {[failed |-> TRUE, ok |-> FALSE, items |-> <<>>],
   [failed |-> FALSE, ok |-> FALSE, items |-> <<>>],
   [failed |-> FALSE, ok |-> TRUE, items |-> <<ItemP>>]}

\* a stored access token that is used before the refresh token is looked at
TokenOnFileStoredFirst(st, t) ==
  IF ~Falsy(st.reddit_access_token) /\ st.reddit_access_expires_at # 0
     /\ t < st.reddit_access_expires_at - ExpiryMargin
  THEN "stored"
  ELSE IF Falsy(st.reddit_refresh_token) THEN "none"
  ELSE "refresh"

\* a stored access token that is still used at the margin itself
TokenOnFileAtMargin(st, t) ==
  IF Falsy(st.reddit_refresh_token) THEN "none"
  ELSE IF ~Falsy(st.reddit_access_token) /\ st.reddit_access_expires_at # 0
          /\ t <= st.reddit_access_expires_at - ExpiryMargin
       THEN "stored"
  ELSE "refresh"

\* getRedditAccessToken up to its await: "none" (no refresh token, null is
\* returned), "stored" (the stored access token is returned), or "refresh"
TokenOnFile(st, t) ==
  LET expiresAt == st.reddit_access_expires_at
  IN  IF Falsy(st.reddit_refresh_token) THEN "none"
      ELSE IF ~Falsy(st.reddit_access_token) /\ expiresAt # 0
              /\ t < expiresAt - ExpiryMargin
           THEN "stored"
      ELSE "refresh"

\* a refresh that stores the new access token and forgets the refresh token
StoreTokenForgetting(st, t, data) ==
  [st EXCEPT !.reddit_refresh_token = Undefined,
             !.reddit_access_token = data.access_token,
             !.reddit_access_expires_at =
                t + (IF data.expires_in = 0 THEN DefaultLifetime ELSE data.expires_in)]

\* a refresh that stores the new access token and leaves the stored expiry
StoreTokenKeepExpiry(st, t, data) ==
  [st EXCEPT !.reddit_access_token = data.access_token]

\* the settings after a refresh response was accepted
StoreToken(st, t, data) ==
  [st EXCEPT !.reddit_access_token = data.access_token,
             !.reddit_access_expires_at =
                t + (IF data.expires_in = 0 THEN DefaultLifetime ELSE data.expires_in)]

\* getRedditUsername up to its first await that leaves the event loop, and what
\* fetchRedditFeedItems does with a null result: the sweep's locals afterwards;
\* pc "empty" stands for `return []`
AfterUsername(s, st, t) ==
  IF ~Falsy(st.reddit_username) THEN [s EXCEPT !.pc = "listing"]
  ELSE CASE TokenOnFile(st, t) = "none" -> [s EXCEPT !.pc = "empty"]
         [] TokenOnFile(st, t) = "stored" -> [s EXCEPT !.pc = "me"]
         [] OTHER -> [s EXCEPT !.pc = "refresh", !.stage = "me"]

\* fetchRedditFeedItems from the moment it holds a token up to its next await
AfterToken(s, feedConfig, st, t, token) ==
  LET source == toLowerCase(OrElse(feedConfig.source, Home))
      h == [s EXCEPT !.token = token, !.stage = "list"]
  IN  IF Falsy(token) THEN [s EXCEPT !.pc = "empty"]
      ELSE IF source = Home THEN [h EXCEPT !.pc = "listing"]
      ELSE IF source = Saved THEN AfterUsername(h, st, t)
      ELSE IF source = Subreddit
           THEN IF Falsy(feedConfig.subreddit) THEN [s EXCEPT !.pc = "empty"]
                ELSE [h EXCEPT !.pc = "listing"]
      ELSE [s EXCEPT !.pc = "empty"]

\* the sweep goes on from the locals n: with the next feed after `return []`,
\* or waiting for the response it asked for
RedditContinue(p, n) ==
  /\ sweep' = [sweep EXCEPT ![p] = IF n.pc = "empty" THEN NextFeed(sweep[p]) ELSE n]
  /\ running' = "none"

\* an error thrown inside fetchRedditFeedItems is caught by nothing in
\* fetchFeedItems or in the sweeps: checkForNewNews ends with a rejected
\* promise; getLatestNewsForChat is rejected into the catch block of /news
RedditThrows(p) ==
  /\ sweep' = [sweep EXCEPT ![p] =
                 [Idle EXCEPT !.pc = IF p \in Periodic THEN "aborted" ELSE "idle",
                              !.run = sweep[p].run]]
  /\ running' = "none"

\* fetchFeedItems for a feed of type reddit: fetchRedditFeedItems up to its
\* first request
FetchReddit(p) ==
  /\ running = "none"
  /\ sweep[p].pc = "fetch"
  /\ isRedditFeed(rssFeeds[sweep[p].feed])
  /\ LET s == sweep[p]
         feedConfig == rssFeeds[s.feed]
     IN  CASE TokenOnFile(settings, now) = "none" -> RedditContinue(p, [s EXCEPT !.pc = "empty"])
           [] TokenOnFile(settings, now) = "stored" ->
                RedditContinue(p, AfterToken(s, feedConfig, settings, now,
                                             settings.reddit_access_token))
           [] OTHER ->
                RedditContinue(p, [s EXCEPT !.pc = "refresh", !.stage = "list"])
  /\ UNCHANGED <<env, redditStates, exchanges,
                 rssFeeds, settings, now, db, chatIds, feedSubscribers, runs,
                 cmds, sends, claims, resolved, joined>>

\* the refresh request settles: refreshRedditAccessToken throws, or
\* getRedditAccessToken stores the new token and its caller goes on
RefreshReturn(p, data) ==
  /\ running = "none"
  /\ sweep[p].pc = "refresh"
  /\ LET s == sweep[p]
         st == StoreToken(settings, now, data)
     IN  IF ~data.ok
         THEN RedditThrows(p) /\ settings' = settings
         ELSE /\ settings' = st
              /\ IF s.stage = "me"
                 THEN RedditContinue(p, [s EXCEPT !.pc = "me"])
                 ELSE RedditContinue(p, AfterToken(s, rssFeeds[s.feed], st, now,
                                                   data.access_token))
  /\ UNCHANGED <<env, redditStates, exchanges,
                 rssFeeds, now, db, chatIds, feedSubscribers, runs, cmds, sends,
                 claims, resolved, joined>>

\* the request to /api/v1/me settles: getRedditUsername throws, or caches and
\* returns the name, or returns null
MeReturn(p, data) ==
  /\ running = "none"
  /\ sweep[p].pc = "me"
  /\ LET s == sweep[p]
     IN  IF ~data.ok
         THEN RedditThrows(p) /\ settings' = settings
         ELSE IF Falsy(data.name)
              THEN RedditContinue(p, [s EXCEPT !.pc = "empty"]) /\ settings' = settings
              ELSE /\ settings' = [settings EXCEPT !.reddit_username = data.name]
                   /\ RedditContinue(p, [s EXCEPT !.pc = "listing"])
  /\ UNCHANGED <<env, redditStates, exchanges,
                 rssFeeds, now, db, chatIds, feedSubscribers, runs, cmds, sends,
                 claims, resolved, joined>>

\* the listing request settles: the error of a failed request is thrown on, a
\* response that is not OK gives [], a listing gives its posts as items
ListingReturn(p, response) ==
  /\ running = "none"
  /\ sweep[p].pc = "listing"
  /\ IF response.failed THEN RedditThrows(p)
     ELSE IF ~response.ok THEN AfterFetch(p, <<>>)
     ELSE AfterFetch(p, response.items)
  /\ UNCHANGED <<env, redditStates, exchanges,
                 rssFeeds, settings, now, db, chatIds, feedSubscribers, runs,
                 cmds, sends, claims, resolved, joined>>

\* the steps of fetchRedditFeedItems within a sweep
RedditFetch(p) ==
  \/ FetchReddit(p)
  \/ \E data \in RefreshResponses : RefreshReturn(p, data)
  \/ \E data \in MeResponses : MeReturn(p, data)
  \/ \E response \in ListingResponses : ListingReturn(p, response)

\* a minute passes
Tick ==
  /\ running = "none"
  /\ now < MaxNow
  /\ now' = now + 1
  /\ UNCHANGED <<env, redditStates, exchanges,
                 rssFeeds, settings, db, chatIds, feedSubscribers, sweep, running,
                 runs, cmds, sends, claims, resolved, joined>>

(***************************************************************************)
(* Reddit OAuth commands                                                   *)
(***************************************************************************)
\* process.env with the three Reddit secrets set
AllSecrets ==
  [REDDIT_CLIENT_ID |-> TRUE, REDDIT_CLIENT_SECRET |-> TRUE,
   REDDIT_REDIRECT_URI |-> TRUE]

\* the values crypto.randomBytes(16).toString('hex') may return
AuthStates == {1, 2}

\* the chats that have an entry in the Map redditStates
Pending(states) == {x[1] : x \in states}

\* redditStates.delete(chatId)
DeleteState(states, c) == {x \in states : x[1] # c}

\* an entry added to the earlier entries of the chat
AddState(states, c, state) == states \cup {<<c, state>>}

\* redditStates.set(chatId, state)
SetState(states, c, state) == DeleteState(states, c) \cup {<<c, state>>}

\* REDDIT_CLIENT_ID, REDDIT_CLIENT_SECRET and REDDIT_REDIRECT_URI are all set
hasRedditConfig ==
  env.REDDIT_CLIENT_ID /\ env.REDDIT_CLIENT_SECRET /\ env.REDDIT_REDIRECT_URI

\* the OAuth commands received in one behaviour
MaxAuthCmds == 2

\* the OAuth commands received in one behaviour of the deployment at hand
AuthCmdLimit == IF rssFeeds = <<FeedRx>> THEN MaxAuthCmds + 1 ELSE MaxAuthCmds

\* the responses of the token endpoint to an authorization code: rejected, or
\* tokens with or without a refresh token and with or without expires_in
ExchangeResponses ==
  {[ok |-> FALSE, refresh_token |-> Undefined, access_token |-> Undefined,
    expires_in |-> 0],
   [ok |-> TRUE, refresh_token |-> <<"r", "2">>, access_token |-> <<"a", "3">>,
    expires_in |-> 2],
   [ok |-> TRUE, refresh_token |-> <<"r", "3">>, access_token |-> <<"a", "4">>,
    expires_in |-> 0],
   [ok |-> TRUE, refresh_token |-> Undefined, access_token |-> <<"a", "5">>,
    expires_in |-> 2]}

\* /reddit_setup: the configuration error is replied, or buildRedditAuthUrl
\* records a new state for the chat and the URL is replied
CmdRedditSetup(c) ==
  /\ running = "none"
  /\ cmds < AuthCmdLimit
  /\ cmds' = cmds + 1
  /\ IF ~hasRedditConfig THEN redditStates' = redditStates
     ELSE \E state \in AuthStates : redditStates' = SetState(redditStates, c, state)
  /\ UNCHANGED <<env, exchanges, rssFeeds, settings, now, db, chatIds,
                 feedSubscribers, sweep, running, runs, sends, claims, resolved,
                 joined>>

\* /reddit_code <code>: the handler up to `await exchangeRedditCodeForTokens`
CmdRedditCode(c, text) ==
  /\ running = "none"
  /\ cmds < AuthCmdLimit
  /\ cmds' = cmds + 1
  /\ exchanges' = IF trim(text) # NoStr /\ hasRedditConfig
                  THEN exchanges \cup {c} ELSE exchanges
  /\ UNCHANGED <<env, redditStates, rssFeeds, settings, now, db, chatIds,
                 feedSubscribers, sweep, running, runs, sends, claims, resolved,
                 joined>>

\* settings that are left as they are whatever the token endpoint answered
StoreNothing(st, t, data) == st

\* the statements of /reddit_code between the exchange and the reply
StoreExchange(st, t, data) ==
  LET a == IF Falsy(data.refresh_token) THEN st
           ELSE [st EXCEPT !.reddit_refresh_token = data.refresh_token]
      b == IF Falsy(data.access_token) THEN a
           ELSE [a EXCEPT !.reddit_access_token = data.access_token,
                          !.reddit_access_expires_at =
                             t + (IF data.expires_in = 0 THEN DefaultLifetime
                                  ELSE data.expires_in)]
  IN  [b EXCEPT !.reddit_username = Undefined]

\* the token endpoint answers a /reddit_code of chat c: a response that is not
\* OK is thrown into the catch block, any other is stored
ExchangeReturn(c, data) ==
  /\ running = "none"
  /\ c \in exchanges
  /\ exchanges' = exchanges \ {c}
  /\ IF ~data.ok
     THEN UNCHANGED <<settings, redditStates>>
     ELSE /\ settings' = StoreExchange(settings, now, data)
          /\ redditStates' = DeleteState(redditStates, c)
  /\ UNCHANGED <<env, rssFeeds, now, db, chatIds, feedSubscribers, sweep, running,
                 runs, cmds, sends, claims, resolved, joined>>

\* /reddit_logout
CmdRedditLogout(c) ==
  /\ running = "none"
  /\ cmds < AuthCmdLimit
  /\ cmds' = cmds + 1
  /\ settings' = NoSettings
  /\ UNCHANGED <<env, redditStates, exchanges, rssFeeds, now, db, chatIds,
                 feedSubscribers, sweep, running, runs, sends, claims, resolved,
                 joined>>

(***************************************************************************)
(* On-demand sweep: /news -> getLatestNewsForChat(chatId)                  *)
(***************************************************************************)
StartManual(m, chatId) ==
  /\ running = "none"
  /\ sweep[m].pc = "idle"
  /\ runs < RunLimit
  /\ runs' = runs + 1
  /\ sweep' = [sweep EXCEPT ![m] =
                 IF rssFeeds = <<>> THEN [Idle EXCEPT !.run = runs + 1]
                 ELSE [Idle EXCEPT !.pc = "fetch", !.run = runs + 1, !.feed = 1,
                                   !.chatId = chatId]]
  /\ UNCHANGED <<env, redditStates, exchanges,
                 rssFeeds, settings, now, db, chatIds, feedSubscribers,
                 running, cmds, sends, claims, resolved, joined>>

\* the sweep's locals after the current item of itemsToSend
NextItem(s) ==
  IF s.i < Len(s.items) THEN [s EXCEPT !.pc = "scan", !.i = s.i + 1] ELSE NextFeed(s)

\* one iteration of `for (const item of itemsToSend)` up to the await of
\* bot.sendMessage
ManualItem(m) ==
  /\ running = m
  /\ m \in Manual
  /\ sweep[m].pc = "scan"
  /\ LET s == sweep[m]
         item == s.items[s.i]
         itemGuid == generateGuid(item)
         itemTitle == OrElse(item.title, NoTitle)
         itemLink == OrElse(item.link, NoStr)
         r == insertNews(db, itemGuid, itemTitle, itemLink, rssFeeds[s.feed].url)
         newsRecord == r.rec
         skip == \/ newsRecord = NoRow
                 \/ r.tbl[newsRecord.id].isSent = 1
                 \/ isNewsSent(r.tbl, newsRecord.guid, itemTitle, itemLink)
         c == claimForSending(r.tbl, newsRecord.id)
     IN  /\ resolved' = resolved \cup {Resolution(item, newsRecord)}
         /\ db' = IF skip THEN r.tbl ELSE c.tbl
         /\ claims' = IF skip THEN claims
                      ELSE claims \cup {ClaimRecord(r.tbl, newsRecord.id, s.run, c.marked)}
         /\ IF skip \/ ~c.marked
            THEN /\ sweep' = [sweep EXCEPT ![m] = NextItem(s)]
                 /\ running' = IF Yields(NextItem(s)) THEN "none" ELSE m
                 /\ sends' = sends
            ELSE /\ sends' = sends \cup {SendRecord(m, newsRecord.id, s.chatId)}
                 /\ sweep' = [sweep EXCEPT ![m].pc = "awaitSend",
                                           ![m].k = newsRecord.id]
                 /\ running' = "none"
  /\ UNCHANGED <<env, redditStates, exchanges,
                 rssFeeds, settings, now, chatIds, feedSubscribers, runs, cmds,
                 joined>>

\* a catch block that unmarks the row whose send failed
OnSendErrorUnmark(tbl, dbId) == [tbl EXCEPT ![dbId].isSent = 0]

\* the catch block of the on-demand send: the row stays marked
OnSendError(tbl, dbId) == tbl

\* a count that goes up with every send, whatever it came to
CountEverySend(newsFound, status) == newsFound + 1

\* newsFound++ after a send that succeeded
CountSent(newsFound, status) == IF status = 200 THEN newsFound + 1 ELSE newsFound

\* bot.sendMessage settles: counted (and the 500 ms pause taken), or logged
ManualSendReturn(m, status) ==
  /\ running = "none"
  /\ m \in Manual
  /\ sweep[m].pc = "awaitSend"
  /\ LET s == [sweep[m] EXCEPT !.k = 0,
                               !.newsFound = CountSent(@, status)]
     IN  /\ sweep' = [sweep EXCEPT ![m] = NextItem(s)]
         /\ running' = IF Yields(NextItem(s)) THEN "none" ELSE m
         /\ db' = IF status = 200 THEN db ELSE OnSendError(db, sweep[m].k)
  /\ UNCHANGED <<env, redditStates, exchanges,
                 rssFeeds, settings, now, chatIds, feedSubscribers, runs, cmds,
                 sends, claims, resolved, joined>>

(***************************************************************************)
(* Specifications                                                          *)
(***************************************************************************)
InitCore ==
  /\ db = <<>>
  /\ chatIds = {}
  /\ feedSubscribers = <<>>
  /\ sweep = [p \in Procs |-> Idle]
  /\ running = "none"
  /\ runs = 0
  /\ cmds = 0
  /\ sends = {}
  /\ claims = {}
  /\ resolved = {}
  /\ joined = {}
  /\ now = 0
  /\ redditStates = {}
  /\ exchanges = {}

\* the state after construction in a deployment with the Reddit secrets set
InitState == InitCore /\ env = AllSecrets

PeriodicSweep(p) ==
  \/ StartPeriodic(p)
  \/ FetchRss(p)
  \/ ScanItem(p)
  \/ ResolveSubscribers(p)
  \/ ClaimItem(p)
  \/ SendCall(p)
  \/ \E status \in SendResults : SendReturn(p, status)

ManualSweep(m) ==
  \/ \E c \in Chats : StartManual(m, c)
  \/ FetchRss(m)
  \/ ManualItem(m)
  \/ \E status \in SendResults : ManualSendReturn(m, status)

\* Delivery under concurrency: one feed, overlapping periodic sweeps, an
\* on-demand sweep and the subscription commands
Init == rssFeeds = <<FeedF>> /\ InitState /\ settings = NoSettings

Next ==
  \/ Commands({<<" ", "f">>})
  \/ \E p \in Periodic : PeriodicSweep(p)
  \/ \E m \in Manual : ManualSweep(m)

Spec == Init /\ [][Next]_vars

\* Routing: two feeds with different items, a periodic sweep, an on-demand
\* sweep, /start and /follow with the first feed's name in another spelling
InitRouting == rssFeeds = <<FeedH, FeedG>> /\ InitState /\ settings = NoSettings

NextRouting ==
  \/ \E c \in Chats : CmdStart(c) \/ CmdFollow(c, <<" ", "h">>)
  \/ PeriodicSweep("p1")
  \/ \E m \in Manual : ManualSweep(m)

SpecRouting == InitRouting /\ [][NextRouting]_vars

\* Ledger: one feed whose documents vary in letter case, query string, title
\* and missing fields; a periodic sweep and an on-demand sweep.  No chat
\* subscribes, so the periodic sweep ends each feed after its scan.
InitLedger == rssFeeds = <<FeedL>> /\ InitState /\ settings = NoSettings

NextLedger ==
  \/ StartPeriodic("p1")
  \/ FetchRss("p1")
  \/ ScanItem("p1")
  \/ ResolveSubscribers("p1")
  \/ \E m \in Manual : ManualSweep(m)

SpecLedger == InitLedger /\ [][NextLedger]_vars

\* Lookup order: a feed whose items hit different rows by guid, link and title
InitLookup == rssFeeds = <<FeedK>> /\ InitState /\ settings = NoSettings

SpecLookup == InitLookup /\ [][NextLedger]_vars

\* Ledger under delivery: a feed with two items whose links differ in letter
\* case and query string only, and a subscriber, so that both sweeps claim rows
\* of a ledger that holds look-alike rows
InitHygiene == rssFeeds = <<FeedY>> /\ InitState /\ settings = NoSettings

NextHygiene ==
  \/ CmdStart("c1")
  \/ PeriodicSweep("p1")
  \/ \E m \in Manual : ManualSweep(m)

SpecHygiene == InitHygiene /\ [][NextHygiene]_vars

\* Identity resolver: a feed that serves one item of any shape, a periodic sweep
InitIdentity == rssFeeds = <<FeedN>> /\ InitState /\ settings = NoSettings

NextIdentity ==
  \/ StartPeriodic("p1")
  \/ FetchRss("p1")
  \/ ScanItem("p1")
  \/ ResolveSubscribers("p1")

SpecIdentity == InitIdentity /\ [][NextIdentity]_vars

\* End to end: one feed that serves one article under two query strings,
\* periodic sweeps one after the other, /follow between them
InitE2E == rssFeeds = <<FeedE>> /\ InitState /\ settings = NoSettings

NextE2E ==
  \/ \E c \in Chats : CmdFollow(c, <<"e">>)
  \/ PeriodicSweep("p1")

SpecE2E == InitE2E /\ [][NextE2E]_vars

\* Item shapes: one feed whose documents hold an item with every field, one
\* with no title and one with neither link nor guid; periodic sweeps, /start
InitShapes == rssFeeds = <<FeedS>> /\ InitState /\ settings = NoSettings

NextShapes ==
  \/ \E c \in Chats : CmdStart(c)
  \/ \E p \in Periodic : PeriodicSweep(p)

SpecShapes == InitShapes /\ [][NextShapes]_vars

\* the settings table as a completed Reddit setup left it: a refresh token,
\* with no access token yet or with one that expires at minute 2 and the
\* user's name cached
Configured ==
  {[NoSettings EXCEPT !.reddit_refresh_token = <<"r">>],
   [reddit_refresh_token |-> <<"r">>, reddit_access_token |-> <<"a", "0">>,
    reddit_access_expires_at |-> 2, reddit_username |-> <<"u">>]}

\* Reddit: a feed of the user's saved posts followed by an RSS feed, a periodic
\* sweep, an on-demand sweep, /start, the clock
InitReddit == rssFeeds = <<FeedR, FeedG>> /\ InitState /\ settings \in Configured

NextReddit ==
  \/ CmdStart("c1")
  \/ PeriodicSweep("p1") \/ RedditFetch("p1")
  \/ \E m \in Manual : ManualSweep(m) \/ RedditFetch(m)
  \/ Tick

SpecReddit == InitReddit /\ [][NextReddit]_vars

\* Registry: two feeds, the subscription commands of two chats and a periodic
\* sweep whose sends may be rejected
InitRegistry == rssFeeds = <<FeedG, FeedH>> /\ InitState /\ settings = NoSettings

\* the arguments of /follow: the two feeds and a name that is no feed
FollowTexts == {<<" ", "G">>, <<"h">>, <<"x">>}

NextRegistry ==
  \/ Commands(FollowTexts)
  \/ PeriodicSweep("p1")

SpecRegistry == InitRegistry /\ [][NextRegistry]_vars

\* Follow: the subscription commands alone; each chat spells the first feed's
\* name in its own way
FollowSpellings ==
  [c1 |-> {<<" ", "G", " ">>, <<"h">>, <<"x">>, <<" ">>},
   c2 |-> {<<"g">>, <<"H">>, <<"x">>}]

NextFollow ==
  \E c \in Chats :
    CmdStart(c) \/ CmdStop(c) \/ \E text \in FollowSpellings[c] : CmdFollow(c, text)

SpecFollow == InitRegistry /\ [][NextFollow]_vars

\* Registry over a configuration with two feeds named G and g
InitAlias == rssFeeds = <<FeedG, FeedGg>> /\ InitState /\ settings = NoSettings

NextAlias ==
  \/ Commands({<<"g">>})
  \/ PeriodicSweep("p1")

SpecAlias == InitAlias /\ [][NextAlias]_vars

\* Reddit adapter: feeds of every kind of source, a periodic sweep and the
\* clock, from a store with or without credentials
InitAdapter ==
  /\ rssFeeds = <<FeedRs, FeedRx, FeedR>> /\ InitState
  /\ settings \in Configured \cup {NoSettings}

NextAdapter ==
  \/ StartPeriodic("p1") \/ RedditFetch("p1")
  \/ ScanItem("p1") \/ ResolveSubscribers("p1")
  \/ Tick

SpecAdapter == InitAdapter /\ [][NextAdapter]_vars

\* the settings table after /reddit_code stored an access token that came
\* without a refresh token
AccessOnly == StoreExchange(NoSettings, 0, [ok |-> TRUE, refresh_token |-> Undefined,
                                            access_token |-> <<"a", "5">>,
                                            expires_in |-> 2])

\* Token on file: the feeds of the adapter specification, from a store with
\* credentials, without, or with an access token alone
InitToken ==
  /\ rssFeeds = <<FeedRs, FeedRx, FeedR>> /\ InitState
  /\ settings \in Configured \cup {NoSettings, AccessOnly}

SpecToken == InitToken /\ [][NextAdapter]_vars

\* the deployments: each of the three Reddit secrets set or not
Envs ==
  [REDDIT_CLIENT_ID : BOOLEAN, REDDIT_CLIENT_SECRET : BOOLEAN,
   REDDIT_REDIRECT_URI : BOOLEAN]

\* Setup: /reddit_setup of two chats in any deployment, beside a periodic
\* sweep over a Reddit feed and the clock
InitSetup ==
  /\ rssFeeds = <<FeedRx>> /\ InitCore /\ env \in Envs
  /\ settings \in Configured \cup {NoSettings}

NextSetup ==
  \/ \E c \in Chats : CmdRedditSetup(c)
  \/ StartPeriodic("p1") \/ FetchReddit("p1")
  \/ Tick

SpecSetup == InitSetup /\ [][NextSetup]_vars

\* Concurrent token users: a periodic and an on-demand sweep over a subreddit
\* feed, the OAuth commands of one chat and the clock
InitRace ==
  /\ rssFeeds = <<FeedRs>> /\ InitState
  /\ settings \in Configured

NextRace ==
  \/ StartPeriodic("p1") \/ StartManual("m1", "c1")
  \/ \E p \in {"p1", "m1"} :
       FetchReddit(p) \/ \E data \in RefreshResponses : RefreshReturn(p, data)
  \/ \E text \in {<<"x">>} : CmdRedditCode("c1", text)
  \/ \E data \in ExchangeResponses : ExchangeReturn("c1", data)
  \/ CmdRedditLogout("c1")
  \/ Tick

SpecRace == InitRace /\ [][NextRace]_vars

\* Credentials: a Reddit feed, a periodic sweep, the OAuth commands of one
\* chat and the clock, from a store with or without credentials
InitAuth ==
  /\ rssFeeds = <<FeedR>> /\ InitState
  /\ settings \in Configured \cup {NoSettings}

NextAuth ==
  \/ StartPeriodic("p1") \/ RedditFetch("p1")
  \/ ScanItem("p1") \/ ResolveSubscribers("p1")
  \/ CmdRedditSetup("c1")
  \/ \E text \in {<<"x">>, <<" ">>} : CmdRedditCode("c1", text)
  \/ \E data \in ExchangeResponses : ExchangeReturn("c1", data)
  \/ CmdRedditLogout("c1")
  \/ Tick

SpecAuth == InitAuth /\ [][NextAuth]_vars

(***************************************************************************)
(* The claim statements on their own: callers from both sweeps claim rows  *)
(* of a ledger that holds sent and unsent rows, in any order               *)
(***************************************************************************)
\* the row a sweep stores for a fetched item
RowOf(tbl, item) ==
  insertNews(tbl, generateGuid(item), OrElse(item.title, NoTitle),
             OrElse(item.link, NoStr), UrlL)

\* two rows, unsent
TwoRows == RowOf(RowOf(<<>>, ItemB).tbl, ItemS).tbl

\* the ledgers of two rows with every combination of sent flags
Ledgers ==
  {TwoRows, claimForSending(TwoRows, 1).tbl, claimForSending(TwoRows, 2).tbl,
   claimForSending(claimForSending(TwoRows, 1).tbl, 2).tbl}

\* the entry of newItems the scan loop builds for a row
EntryOf(row) ==
  [item |-> Item(Undefined, row.title, row.link, NoStr), guid |-> row.guid,
   title |-> row.title, link |-> row.link, dbId |-> row.id]

\* the claim of checkForNewNews for the row dbId
ClaimFromPeriodic(p, dbId) ==
  /\ runs < MaxCallers
  /\ dbId \in 1..Len(db)
  /\ LET c == ClaimEntry(db, EntryOf(db[dbId]))
     IN  /\ db' = c.tbl
         /\ claims' = claims \cup {ClaimRecord(db, dbId, <<p, runs + 1>>, c.marked)}
  /\ runs' = runs + 1
  /\ UNCHANGED <<env, redditStates, exchanges,
                 rssFeeds, settings, now, chatIds, feedSubscribers, sweep,
                 running, cmds, sends, resolved, joined>>

\* the claim of getLatestNewsForChat for the id dbId, which may name no row
ClaimFromManual(m, dbId) ==
  /\ runs < MaxCallers
  /\ LET c == claimForSending(db, dbId)
     IN  /\ db' = c.tbl
         /\ claims' = claims \cup {ClaimRecord(db, dbId, <<m, runs + 1>>, c.marked)}
  /\ runs' = runs + 1
  /\ UNCHANGED <<env, redditStates, exchanges,
                 rssFeeds, settings, now, chatIds, feedSubscribers, sweep,
                 running, cmds, sends, resolved, joined>>

InitClaim ==
  /\ rssFeeds = <<FeedL>>
  /\ db \in Ledgers
  /\ chatIds = {}
  /\ feedSubscribers = <<>>
  /\ sweep = [p \in Procs |-> Idle]
  /\ running = "none"
  /\ runs = 0
  /\ cmds = 0
  /\ sends = {}
  /\ claims = {}
  /\ resolved = {}
  /\ joined = {}
  /\ settings = NoSettings
  /\ now = 0
  /\ redditStates = {}
  /\ exchanges = {}
  /\ env = AllSecrets

NextClaim ==
  \/ \E p \in Periodic, dbId \in 1..2 : ClaimFromPeriodic(p, dbId)
  \/ \E m \in Manual, dbId \in 0..3 : ClaimFromManual(m, dbId)

SpecClaim == InitClaim /\ [][NextClaim]_vars

(***************************************************************************)
(* Properties                                                              *)
(***************************************************************************)
\* C1: at-most-once delivery.  Under every interleaving of overlapping periodic
\* sweeps and on-demand sweeps, the true claims of one ledger row all belong to
\* one sweep invocation, every message for the row is sent by that one
\* invocation, and no chat is handed a second message for the same row.
AtMostOnceDelivery ==
  /\ \A x, y \in claims : (x.marked /\ y.marked /\ x.rec = y.rec) => x.by = y.by
  /\ \A x, y \in sends : x.rec = y.rec => x.by = y.by
  /\ \A x \in sends, c \in claims : (c.marked /\ c.rec = x.rec) => c.by = x.by
  /\ \A x \in sends : x.n = 0

\* a periodic fan-out in progress whose list of new items names one row twice
\* and names a row that another invocation has sent meanwhile
RacedOnSameRow ==
  \E p \in Periodic :
    LET s == sweep[p]
    IN  /\ s.pc = "awaitSend"
        /\ \E i, j \in 1..Len(s.newItems) :
             i < j /\ s.newItems[i].dbId = s.newItems[j].dbId
        /\ \E j \in 1..Len(s.newItems), x \in sends :
             j > s.k /\ x.rec = s.newItems[j].dbId /\ x.by # s.run

\* C3: the sent flag is monotonic.  No step takes a row whose flag is 1 to a
\* state where the row is missing or its flag is 0, whatever the outcome of the
\* sends of its fan-out.
SentNeverReverts ==
  [][\A n \in 1..Len(db) :
       db[n].isSent = 1 => (n <= Len(db') /\ db'[n].isSent = 1)]_vars

\* an on-demand sweep has ended with no successful send although it claimed a
\* row, and the row is still marked sent
SentAfterFailedFanOut ==
  \E m \in Manual, c \in claims :
    /\ sweep[m].pc = "idle"
    /\ sweep[m].newsFound = 0
    /\ c.by = sweep[m].run
    /\ c.marked
    /\ db[c.rec].isSent = 1

\* C9: eviction.  Whenever the handling of a send that failed with 403 or 400
\* ends, in the periodic or in the on-demand sweep, the chat it was addressed to
\* is in neither the global set nor any per-feed set.
EvictedAfterRejectedSend ==
  [][\A p \in Procs : \A status \in {400, 403} :
       (SendReturn(p, status) \/ ManualSendReturn(p, status)) =>
         /\ sweep[p].chatId \notin chatIds'
         /\ \A key \in DOMAIN feedSubscribers' :
              sweep[p].chatId \notin feedSubscribers'[key]]_vars

\* the per-feed sets a chat has ever been added to
JoinedBy(c) == {key \in {j[2] : j \in joined} : <<c, key>> \in joined}

\* the name under which the feed of a message is followed
FeedKey(x) == normalizeFeedName(rssFeeds[x.feed].name)

\* a chat in the global set is in the resolved subscriber set of every feed
GlobalReceivesEveryFeed ==
  \A n \in 1..Len(rssFeeds) :
    chatIds \subseteq getSubscribersForFeed(chatIds, feedSubscribers, rssFeeds[n].name)

\* C10 as stated: a chat that never joined the global set and joined the
\* per-feed sets of other feeds only is never sent an item of feed G by any
\* sweep path; a chat in the global set is in every feed's resolved set.
PerFeedRoutingAnyPath ==
  /\ \A x \in sends :
       (JoinedBy(x.chat) # {} /\ GlobalSet \notin JoinedBy(x.chat)) =>
         FeedKey(x) \in JoinedBy(x.chat)
  /\ GlobalReceivesEveryFeed

\* C10, periodic path: a chat that never joined the global set nor the per-feed
\* set of feed G is never sent an item of feed G by a periodic sweep; a chat in
\* the global set is in every feed's resolved set.
PerFeedRoutingPeriodic ==
  /\ \A x \in sends :
       x.proc \in Periodic =>
         (GlobalSet \in JoinedBy(x.chat) \/ FeedKey(x) \in JoinedBy(x.chat))
  /\ GlobalReceivesEveryFeed

\* a periodic sweep has ended after sending the first feed's item to a chat that
\* follows that feed only; the second feed's item is stored and was sent to
\* nobody
FollowerSkippedForOtherFeed ==
  \E x \in sends, r \in resolved :
    /\ x.proc \in Periodic /\ x.feed = 1
    /\ JoinedBy(x.chat) = {FeedKey(x)}
    /\ sweep[x.proc].pc = "idle"
    /\ r.item = ItemB /\ r.rec # 0 /\ db[r.rec].isSent = 0
    /\ \A y \in sends : y.feed = 1

\* every item some document of the ledger feed carries
Fetchable == UNION {{d[n] : n \in 1..Len(d)} : d \in Served(UrlL)}

\* the result of insertNews for a fetched item, as both sweeps call it
InsertOrGet(tbl, item) ==
  insertNews(tbl, generateGuid(item), OrElse(item.title, NoTitle),
             OrElse(item.link, NoStr), UrlL)

\* C5: dedup by normalized link.  For every stored row R and every fetched item
\* with a link whose canonical guid differs from R's guid and whose normalized
\* link equals that of R's stored link, insertNews returns R and leaves the
\* table as it is.
DedupByNormalizedLink ==
  \A R \in Rows(db), item \in Fetchable :
    ( /\ ~Falsy(item.link)
      /\ generateGuid(item) # R.guid
      /\ normalizeLink(item.link) = normalizeLink(R.link) ) =>
        /\ InsertOrGet(db, item).rec = R
        /\ InsertOrGet(db, item).tbl = db

\* C6: ledger uniqueness.  No two rows share a guid, none share the normalized
\* form of a non-empty link, none share the normalized form of a title longer
\* than 10 characters.
LedgerUnique ==
  \A r, q \in Rows(db) :
    r.id # q.id =>
      /\ r.guid # q.guid
      /\ (r.link # NoStr => normalizeLink(r.link) # normalizeLink(q.link))
      /\ (Len(r.title) > TitleMinLen =>
            normalizeTitle(r.title) # normalizeTitle(q.title))

\* the title under which a fetched item is stored
StoredTitle(item) == OrElse(item.title, NoTitle)

\* two resolutions of different items with one short title
SameShortTitle(a, b) ==
  /\ a.item # b.item
  /\ a.rec # 0 /\ b.rec # 0
  /\ StoredTitle(a.item) = StoredTitle(b.item)
  /\ Len(StoredTitle(a.item)) <= TitleMinLen

OneRowOneDelivery ==
  /\ Len(db) <= 1
  /\ \A r \in resolved : r.rec = 1
  /\ joined = {} => (sends = {} /\ claims = {} /\ \A n \in 1..Len(db) : db[n].isSent = 0)
  /\ \A x \in sends : x.n = 0 /\ <<x.chat, FeedKey(x)>> \in joined /\ db[x.rec].isSent = 1
  /\ \A x, y \in sends : x.by = y.by /\ (x.chat = y.chat => x = y)

\* a sweep that has the item in hand ends with the row still unsent only when
\* the feed has no subscriber
UnsentOnlyWithoutSubscribers ==
  ( /\ sweep["p1"].pc \in {"resolve", "claim", "send"}
    /\ sweep'["p1"].pc = "idle"
    /\ db'[1].isSent = 0 ) =>
      getSubscribersForFeed(chatIds, feedSubscribers, FeedE.name) = {}

\* C4: end-to-end trace.  A sweep with no subscriber inserts the item unsent and
\* sends nothing; once a chat follows the feed the next sweep that fetches the
\* item claims the row and sends one message to the follower; a sweep in which
\* the item comes back with another query string resolves it to the same row,
\* inserts nothing and sends nothing.
EndToEndTrace == []OneRowOneDelivery /\ [][UnsentOnlyWithoutSubscribers]_vars

\* three sweeps have run: the first stored the item, the second alone claimed
\* it and sent one message, the third met the other query string
ThreeSweepsOneMessage ==
  /\ runs = 3 /\ sweep["p1"].pc = "idle"
  /\ Len(db) = 1 /\ db[1].link = LinkA1 /\ db[1].isSent = 1
  /\ resolved = {Resolution(ItemA1, db[1]), Resolution(ItemA2, db[1])}
  /\ claims = {[rec |-> 1, by |-> 2, marked |-> TRUE, was |-> 0]}
  /\ \E c \in Chats : \A x \in sends : x.chat = c /\ x.by = 2
  /\ Cardinality(sends) = 1

\* C2: the claim is atomic.  A call reports true exactly when the row existed
\* and was unsent when it ran (so the first caller of an unsent row wins and a
\* call on a sent or missing row reports false); whatever the number and mix
\* of callers, at most one call per row reports true, and every row that was
\* called for is sent afterwards.
ClaimIsAtomic ==
  /\ \A c \in claims : c.marked <=> c.was = 0
  /\ \A c, d \in claims : (c.rec = d.rec /\ c.marked /\ d.marked) => c = d
  /\ \A c \in claims : c.rec \in 1..Len(db) => db[c.rec].isSent = 1

\* three callers, from both sweeps, have claimed one row: one call reported
\* true, the others false
ThreeCallersOneWinner ==
  \E dbId \in 1..Len(db) :
    LET cs == {c \in claims : c.rec = dbId}
    IN  /\ Cardinality(cs) = 3
        /\ Cardinality({c \in cs : c.marked}) = 1
        /\ \E c, d \in cs : c.by[1] \in Periodic /\ d.by[1] \in Manual

\* the positions of a sweep inside fetchFeedItems
Fetching == {"fetch", "refresh", "me", "listing"}

\* C8: fail-open isolation.  Whatever happens while a sweep fetches a feed that
\* is not the last one, the sweep goes on: it neither ends nor is rejected at
\* that feed, so the feeds after it are fetched in the same sweep.
FailOpenIsolation ==
  [][\A p \in Procs :
       (sweep[p].pc \in Fetching /\ sweep[p].feed < Len(rssFeeds)) =>
         sweep'[p].pc \notin {"idle", "aborted"}]_vars

\* the subscriber set a periodic sweep resolves for the feed it is at
ResolvedNow(p) ==
  getSubscribersForFeed(chatIds, feedSubscribers, rssFeeds[sweep[p].feed].name)

\* a periodic sweep with new items in hand and no subscriber for the feed
\* leaves the feed: nothing is sent or claimed and the rows stay unsent
StepWithoutSubscribers(p) ==
  (sweep[p].pc = "resolve" /\ sweep'[p] # sweep[p] /\ ResolvedNow(p) = {}) =>
    /\ sends' = sends /\ claims' = claims /\ db' = db
    /\ sweep'[p].pc \in {"idle", "fetch"}
    /\ \A n \in 1..Len(sweep[p].newItems) : db'[sweep[p].newItems[n].dbId].isSent = 0

\* a periodic sweep with new items in hand and a subscriber goes on to claim,
\* and the claim of a row that is still unsent succeeds and opens the fan-out
\* to the resolved set
StepWithSubscribers(p) ==
  /\ ( /\ sweep[p].pc = "resolve" /\ sweep'[p] # sweep[p]
       /\ sweep[p].newItems # <<>> /\ ResolvedNow(p) # {} ) =>
         (sweep'[p].pc = "claim" /\ sweep'[p].subscribers = ResolvedNow(p))
  /\ ( /\ sweep[p].pc = "claim" /\ sweep'[p] # sweep[p]
       /\ db[sweep[p].newItems[sweep[p].k].dbId].isSent = 0 ) =>
         /\ db'[sweep[p].newItems[sweep[p].k].dbId].isSent = 1
         /\ \E c \in claims' \ claims : c.marked /\ c.by = sweep[p].run
         /\ sweep'[p].pc = "send" /\ sweep'[p].rest = sweep[p].subscribers
  /\ ( /\ sweep[p].pc = "send" /\ sweep'[p] # sweep[p] /\ sweep[p].rest # {} ) =>
         \E x \in sends' \ sends :
           x.chat \in sweep[p].rest /\ x.rec = sweep[p].newItems[sweep[p].k].dbId

\* C11: empty subscriber set.  A periodic sweep that finds the feed's resolved
\* set empty sends nothing, claims nothing and leaves every row it found or
\* created unsent; a periodic sweep that holds the item while the set is not
\* empty claims the unsent row and hands it to the send primitive.
EmptySetDefersDelivery ==
  [][\A p \in Periodic : StepWithoutSubscribers(p) /\ StepWithSubscribers(p)]_vars

\* the first of two sweeps stored the item and claimed nothing; the second met
\* it again, claimed it and sent it
DeferredThenDelivered ==
  /\ runs = 2 /\ Len(db) = 1 /\ db[1].link = LinkA1
  /\ resolved = {Resolution(ItemA1, db[1]), Resolution(ItemA2, db[1])}
  /\ claims = {[rec |-> 1, by |-> 2, marked |-> TRUE, was |-> 0]}
  /\ \E x \in sends : x.by = 2 /\ x.rec = 1

\* C12: fan-out completeness.  When the claim of a periodic sweep reports true
\* the fan-out to the whole resolved set opens; the fan-out hands one message
\* after the other to the send primitive, whatever the earlier sends came to,
\* and ends only when no chat of the set is left.
FanOutComplete ==
  [][\A p \in Periodic :
       LET s == sweep[p]
           t == sweep'[p]
       IN  /\ (s.pc = "claim" /\ \E c \in claims' \ claims : c.marked) =>
                (t.pc = "send" /\ t.rest = s.subscribers)
           /\ (s.pc = "send" /\ t # s /\ s.rest # {}) =>
                /\ t.pc = "awaitSend"
                /\ \E x \in sends' \ sends :
                     x.chat \in s.rest /\ t.rest = s.rest \ {x.chat}
           /\ (s.pc = "awaitSend" /\ t # s) => (t.pc = "send" /\ t.rest = s.rest)]_vars

\* the messages an invocation has handed to the send primitive
SentBy(run) == {x \in sends : x.by = run}

\* C13: on-demand sweep.  Every message of an on-demand sweep goes to the chat
\* that asked; the count goes up by one with a send that succeeded and stays
\* with a send that failed, so it never exceeds the rows the sweep claimed;
\* after a send of either outcome the sweep goes on with the next item, the
\* next feed, or returns the count.
OnDemandCountsDeliveries ==
  /\ [][\A m \in Manual :
          LET s == sweep[m]
              t == sweep'[m]
          IN  /\ \A x \in sends' \ sends : x.proc = m => x.chat = s.chatId
              /\ \A status \in SendResults :
                   ManualSendReturn(m, status) =>
                     /\ t.newsFound = s.newsFound + (IF status = 200 THEN 1 ELSE 0)
                     /\ t.pc = IF s.i < Len(s.items) THEN "scan"
                               ELSE IF s.feed < Len(rssFeeds) THEN "fetch" ELSE "idle"
              /\ (s.pc # "awaitSend" /\ t.pc # "fetch" /\ s.pc # "idle") =>
                   t.newsFound = s.newsFound]_vars
  /\ [](\A m \in Manual :
          /\ sweep[m].newsFound <= Cardinality(SentBy(sweep[m].run))
          /\ Cardinality(SentBy(sweep[m].run)) =
               Cardinality({c \in claims : c.by = sweep[m].run /\ c.marked}))

\* an on-demand sweep has returned 1 after two sends, one for each feed
OneOfTwoDelivered ==
  \E m \in Manual :
    /\ sweep[m].pc = "idle" /\ sweep[m].newsFound = 1
    /\ \E x, y \in SentBy(sweep[m].run) : x.feed = 1 /\ y.feed = 2

\* the stored access token is more than the margin away from its expiry
StoredTokenFresh ==
  /\ ~Falsy(settings.reddit_access_token)
  /\ settings.reddit_access_expires_at # 0
  /\ now < settings.reddit_access_expires_at - ExpiryMargin

\* C14: token refresh boundary.  With a refresh token on file, a call that
\* finds the stored access token more than the margin before its expiry goes
\* on with that token, asks for no refresh and writes nothing; a call at or
\* past the margin, or without a stored token or expiry, has one refresh
\* request in flight, and the accepted response is stored with the expiry
\* now + lifetime and is the token the caller goes on with.
RefreshBoundary ==
  [][\A p \in Procs :
       LET s == sweep[p]
           t == sweep'[p]
       IN  /\ (FetchReddit(p) /\ ~Falsy(settings.reddit_refresh_token)) =>
                /\ settings' = settings
                /\ IF StoredTokenFresh
                   THEN /\ t.pc # "refresh"
                        /\ t.pc \in {"listing", "me"} =>
                             t.token = settings.reddit_access_token
                   ELSE t.pc = "refresh" /\ t.stage = "list"
           /\ \A data \in RefreshResponses :
                (RefreshReturn(p, data) /\ data.ok) =>
                  /\ settings'.reddit_access_token = data.access_token
                  /\ settings'.reddit_access_expires_at =
                       now + (IF data.expires_in = 0 THEN DefaultLifetime
                              ELSE data.expires_in)
                  /\ settings'.reddit_refresh_token = settings.reddit_refresh_token
                  /\ t.pc # "refresh"
                  /\ (s.stage = "list" /\ t.pc \in {"listing", "me"}) =>
                       t.token = data.access_token]_vars

\* a refresh is in flight for a stored token that is exactly the margin away
\* from its expiry
RefreshAtMargin ==
  \E p \in Procs :
    /\ sweep[p].pc = "refresh"
    /\ ~Falsy(settings.reddit_access_token)
    /\ settings.reddit_access_expires_at # 0
    /\ now = settings.reddit_access_expires_at - ExpiryMargin

\* C15: logout.  /reddit_logout leaves none of the four credential fields
\* stored, and from a store without credentials no step other than the answer
\* to a /reddit_code stores one of them again, a token refresh or a username
\* lookup that was in flight included.
LogoutIsFinal ==
  [][/\ (\E c \in Chats : CmdRedditLogout(c)) => settings' = NoSettings
     /\ (settings = NoSettings /\ exchanges' = exchanges) =>
          settings' = NoSettings]_vars

\* C16: a /reddit_code whose exchange is accepted and returns a refresh token
\* leaves the returned refresh token, the returned access token, the expiry
\* now + expires_in (the default lifetime when the response has none) and no
\* cached username in the store, and no pending state for the chat.
SetupStoresCredential ==
  [][\A c \in Chats : \A data \in ExchangeResponses :
       (ExchangeReturn(c, data) /\ data.ok /\ ~Falsy(data.refresh_token)) =>
         /\ settings'.reddit_refresh_token = data.refresh_token
         /\ settings'.reddit_access_token = data.access_token
         /\ settings'.reddit_access_expires_at =
              now + (IF data.expires_in = 0 THEN DefaultLifetime ELSE data.expires_in)
         /\ settings'.reddit_username = Undefined
         /\ c \notin Pending(redditStates')]_vars

\* a setup has completed as the second OAuth command, after the clock moved:
\* the store holds what the token endpoint returned and no pending state is left
SetupReplacedCredential ==
  /\ cmds = 2 /\ exchanges = {} /\ redditStates = {}
  /\ settings.reddit_refresh_token = <<"r", "2">>
  /\ settings.reddit_access_token = <<"a", "3">>
  /\ settings.reddit_access_expires_at = now + 2
  /\ settings.reddit_username = Undefined
  /\ now > 0

\* C17: a /reddit_code whose exchange is rejected, or whose response has no
\* refresh token, leaves the four credential fields as they were.
FailedSetupStoresNothing ==
  [][\A c \in Chats : \A data \in ExchangeResponses :
       (ExchangeReturn(c, data) /\ (~data.ok \/ Falsy(data.refresh_token))) =>
         settings' = settings]_vars

\* C18: the periodic task survives every failure.  Whenever the first slot of
\* the periodic task is not in a sweep, the event loop is free and the run
\* budget is not used up, a periodic sweep can be started: no sweep has ended
\* in a rejection that keeps the interval from being set or from firing again.
PeriodicTaskSurvives ==
  (/\ sweep["p1"].pc \in {"idle", "aborted"}
   /\ running = "none"
   /\ runs < RunLimit) => ENABLED StartPeriodic("p1")

\* the chats that receive feed number n under the registry (global, fs)
Receivers(global, fs, n) == getSubscribersForFeed(global, fs, rssFeeds[n].name)

\* the registry after the step holds chat c nowhere and holds every other chat
\* where it was
RemovedAlone(c) ==
  /\ c \notin chatIds'
  /\ \A key \in DOMAIN feedSubscribers' : c \notin feedSubscribers'[key]
  /\ \A n \in 1..Len(rssFeeds) : c \notin Receivers(chatIds', feedSubscribers', n)
  /\ \A d \in Chats \ {c} :
       /\ d \in chatIds' <=> d \in chatIds
       /\ \A key \in DOMAIN feedSubscribers \cup DOMAIN feedSubscribers' :
            d \in specificSubs(feedSubscribers', key) <=>
              d \in specificSubs(feedSubscribers, key)

\* C19: /stop and the eviction after a send rejected with 403 or 400 remove the
\* chat from the global set and from every per-feed set and leave the other
\* chats where they were; a chat that no feed resolves to is resolved to again
\* only by its own /start or /follow.
RemovalIsCompleteAndLocal ==
  [][/\ \A c \in Chats : CmdStop(c) => RemovedAlone(c)
     /\ \A p \in Periodic : \A status \in {403, 400} :
          SendReturn(p, status) => RemovedAlone(sweep[p].chatId)
     /\ \A c \in Chats : \A n \in 1..Len(rssFeeds) :
          (/\ c \notin Receivers(chatIds, feedSubscribers, n)
           /\ c \in Receivers(chatIds', feedSubscribers', n)) =>
            (CmdStart(c) \/ \E text \in FollowTexts : CmdFollow(c, text))]_vars

\* a chat that had sent /start and /follow was evicted from both sets while the
\* other chat kept its subscription
EvictedFromBothSets ==
  \E c \in Chats : \E d \in Chats \ {c} : \E key \in DOMAIN feedSubscribers :
    /\ <<c, GlobalSet>> \in joined /\ <<c, key>> \in joined
    /\ cmds = 3
    /\ \E x \in sends : x.chat = c
    /\ c \notin chatIds /\ \A k \in DOMAIN feedSubscribers : c \notin feedSubscribers[k]
    /\ d \in chatIds \cup UNION {feedSubscribers[k] : k \in DOMAIN feedSubscribers}

\* the names of the configured feeds whose per-feed set holds chat c
FollowedFeeds(c) ==
  {rssFeeds[n].name : n \in {k \in 1..Len(rssFeeds) :
     c \in specificSubs(feedSubscribers, normalizeFeedName(rssFeeds[k].name))}}

\* C20: in every registry state, the subscribers resolved for a feed are the
\* global chats and the chats of the feed's own set and no others, and the
\* feeds resolved for a chat are all the configured feeds when the chat is
\* global and otherwise the feeds whose own set holds the chat.
ResolutionMatchesRegistry ==
  /\ \A n \in 1..Len(rssFeeds) : \A c \in Chats :
       c \in getSubscribersForFeed(chatIds, feedSubscribers, rssFeeds[n].name) <=>
         \/ c \in chatIds
         \/ \E key \in DOMAIN feedSubscribers :
              /\ key = toLowerCase(trim(rssFeeds[n].name))
              /\ c \in feedSubscribers[key]
  /\ \A c \in Chats :
       getFeedsForChat(rssFeeds, chatIds, feedSubscribers, c) =
         IF c \in chatIds THEN {rssFeeds[n].name : n \in 1..Len(rssFeeds)}
         ELSE FollowedFeeds(c)


\* C21: insertNews always hands a record to its caller.  Every call a sweep
\* has made returned a row, and the call a sweep is about to make for the item
\* it is at either returns the row findExistingNews matches and leaves the
\* table as it is, or appends exactly one row with isSent = 0 and returns it.
InsertOrGetContract ==
  /\ \A x \in resolved : x.rec # 0
  /\ \A p \in Procs :
       sweep[p].pc = "scan" =>
         LET item == sweep[p].items[sweep[p].i]
             guid == generateGuid(item)
             title == OrElse(item.title, NoTitle)
             link == OrElse(item.link, NoStr)
             existing == findExistingNews(db, guid, title, link)
             r == insertNews(db, guid, title, link, rssFeeds[sweep[p].feed].url)
         IN  /\ r.rec # NoRow
             /\ IF existing # NoRow
                THEN r.tbl = db /\ r.rec = existing /\ existing \in Rows(db)
                ELSE /\ r.tbl = Append(db, r.rec)
                     /\ r.rec.isSent = 0 /\ r.rec.guid = guid

\* the item a sweep is about to look up, as the arguments of findExistingNews
AtScan(p) ==
  LET item == sweep[p].items[sweep[p].i]
  IN  [guid |-> generateGuid(item), title |-> OrElse(item.title, NoTitle),
       link |-> OrElse(item.link, NoStr)]

\* C22: lookup order.  For the item a sweep is about to look up: a row with the
\* item's guid is the result whatever rows its link or title match; with no
\* such row, a row matched by the link is the result whatever row the title
\* matches; with neither, a row matched by a title longer than 10 characters
\* is the result; otherwise there is none.
LookupPrecedence ==
  \A p \in Procs :
    sweep[p].pc = "scan" =>
      LET q == AtScan(p)
          A == SelectByGuid(db, q.guid)
          B == SelectByLink(db, q.link)
          C == SelectByTitle(db, q.title)
          found == findExistingNews(db, q.guid, q.title, q.link)
      IN  IF A # NoRow THEN found = A
          ELSE IF q.link # NoStr /\ B # NoRow THEN found = B
          ELSE IF Len(q.title) > TitleMinLen /\ C # NoRow THEN found = C
          ELSE found = NoRow

\* a sweep is about to look up an item that no row matches by guid, a row
\* matches by link and another row matches by title, after an item whose guid
\* matched one row and whose title matched another was resolved to the former
LinkHitBeforeTitleHit ==
  \E p \in Procs :
    /\ sweep[p].pc = "scan"
    /\ LET q == AtScan(p)
           A == SelectByGuid(db, q.guid)
           B == SelectByLink(db, q.link)
           C == SelectByTitle(db, q.title)
       IN  A = NoRow /\ B # NoRow /\ C # NoRow /\ B # C
    /\ \E x \in resolved :
         /\ x.item = ItemQ1
         /\ x.rec = SelectByGuid(db, generateGuid(ItemQ1)).id
         /\ x.rec # SelectByTitle(db, ItemQ1.title).id

\* the text of a link before its query string or fragment
BeforeQuery(link) == SubSeq(link, 1, IndexOfAny(link, {"?", "#"}, 1) - 1)

\* a link reduced to scheme, host and path
SchemeHostPath(link) ==
  IF UrlParses(link) THEN UrlOrigin(link) \o UrlPathname(link) ELSE BeforeQuery(link)

\* the identifier the cases of C23 give an item; reduced says what stands for
\* its link
IdByCases(item, reduced) ==
  IF ~Falsy(item.link) THEN reduced
  ELSE IF ~Falsy(item.guid) THEN item.guid
  ELSE IF ~Falsy(item.title) THEN item.title
  ELSE Unknown

\* the item a sweep is scanning
Scanned(p) == sweep[p].items[sweep[p].i]

\* C23 as stated: the identifier of every scanned item is its link reduced to
\* scheme, host and path when it has a link, else its guid, else its title,
\* else 'unknown'.
CanonicalIdAsStated ==
  \A p \in Procs :
    sweep[p].pc = "scan" =>
      generateGuid(Scanned(p)) =
        IdByCases(Scanned(p), SchemeHostPath(Scanned(p).link))

\* C23, with the link kept whole when it is no URL: the identifier of every
\* scanned item is origin and pathname of its link when the link parses, the
\* link itself when it does not, else the item's guid, else its title, else
\* 'unknown'; every row is stored under the identifier of an item resolved to it.
CanonicalIdByCases ==
  /\ \A p \in Procs :
       sweep[p].pc = "scan" =>
         generateGuid(Scanned(p)) =
           IdByCases(Scanned(p),
                     IF UrlParses(Scanned(p).link)
                     THEN UrlOrigin(Scanned(p).link) \o UrlPathname(Scanned(p).link)
                     ELSE Scanned(p).link)
  /\ \A r \in Rows(db) : \E x \in resolved :
       /\ x.rec = r.id
       /\ r.guid =
            IdByCases(x.item, IF UrlParses(x.item.link)
                              THEN UrlOrigin(x.item.link) \o UrlPathname(x.item.link)
                              ELSE x.item.link)

\* an item whose link is no URL and carries a query string was stored under
\* the whole link, although it has a source guid
StoredUnderWholeLink ==
  \E x \in resolved :
    /\ x.rec # 0
    /\ ~Falsy(x.item.link) /\ ~UrlParses(x.item.link)
    /\ BeforeQuery(x.item.link) # x.item.link
    /\ ~Falsy(x.item.guid)
    /\ db[x.rec].guid = x.item.link

\* two links with the same text before the query string or fragment
DifferInQueryOnly(a, b) ==
  /\ ~Falsy(a) /\ ~Falsy(b)
  /\ UrlParses(a) /\ UrlParses(b)
  /\ BeforeQuery(a) = BeforeQuery(b)

EndedEmpty(p) ==
  /\ sweep'[p] = NextFeed(sweep[p])
  /\ db' = db /\ sends' = sends /\ claims' = claims

\* the source of the Reddit feed sweep p is at
SourceOf(p) == toLowerCase(OrElse(rssFeeds[sweep[p].feed].source, Home))

\* C25: the Reddit adapter fails open.  The fetch ends with an empty sequence,
\* with nothing raised and the ledger as it was, when no refresh token is on
\* file, when the listing request is answered with a status that is not OK,
\* when the source is 'saved' and the username lookup gives no name, and, once
\* a token is in hand, when the source is 'subreddit' without a name or is none
\* of home, saved and subreddit.
RedditAdapterFailsOpen ==
  [][\A p \in Procs :
       /\ (FetchReddit(p) /\ Falsy(settings.reddit_refresh_token)) => EndedEmpty(p)
       /\ \A response \in ListingResponses :
            (ListingReturn(p, response) /\ ~response.failed /\ ~response.ok) =>
              EndedEmpty(p)
       /\ \A data \in MeResponses :
            (MeReturn(p, data) /\ (~data.ok \/ Falsy(data.name))) => EndedEmpty(p)
       /\ ( /\ \/ FetchReddit(p) /\ TokenOnFile(settings, now) = "stored"
               \/ \E data \in RefreshResponses : RefreshReturn(p, data) /\ data.ok
            /\ sweep[p].stage # "me"
            /\ \/ SourceOf(p) = Subreddit /\ Falsy(rssFeeds[sweep[p].feed].subreddit)
               \/ SourceOf(p) \notin {Home, Saved, Subreddit} ) => EndedEmpty(p)]_vars

\* C26: the RSS adapter fails open.  A fetch of an RSS feed never rejects the
\* sweep; a fetch that yields no items stores nothing, claims nothing and sends
\* nothing for that feed, leaves every row as it was, and the sweep goes on
\* with the next feed or ends normally.
RssAdapterFailsOpen ==
  [][\A p \in Procs :
       FetchRss(p) =>
         /\ sweep'[p].pc # "aborted"
         /\ db' = db /\ sends' = sends /\ claims' = claims
         /\ sweep'[p].pc # "scan" =>
              /\ sweep'[p] = NextFeed(sweep[p])
              /\ sweep'[p].pc = IF sweep[p].feed < Len(rssFeeds) THEN "fetch" ELSE "idle"]_vars

\* a periodic sweep got nothing from the first feed and delivered the item of
\* the second: the only row is the second feed's and every message is for it
SecondFeedDeliveredAlone ==
  /\ Len(db) = 1 /\ db[1].feedUrl = rssFeeds[2].url /\ db[1].isSent = 1
  /\ sends # {}
  /\ \A x \in sends : x.feed = 2 /\ x.rec = 1 /\ x.proc \in Periodic /\ x.by = 1
  /\ \A p \in Procs : sweep[p].pc = "idle"

\* C27: send failures in the periodic fan-out.  A send rejected with a status
\* other than 403 and 400 leaves the registry as it was; after a rejected send
\* of any status the sweep is back in the fan-out loop with the same recipients
\* still to go and the same items still to process; the loop then hands a
\* message to one of the remaining recipients, or, with none left, goes on with
\* the next item or feed.
FanOutSurvivesSendFailure ==
  [][\A p \in Periodic :
       LET s == sweep[p]
           t == sweep'[p]
       IN  /\ \A status \in SendResults \ {200} :
                SendReturn(p, status) =>
                  /\ status \notin {403, 400} =>
                       chatIds' = chatIds /\ feedSubscribers' = feedSubscribers
                  /\ t.pc = "send" /\ t.rest = s.rest
                  /\ t.k = s.k /\ t.newItems = s.newItems /\ t.feed = s.feed
                  /\ db' = db
           /\ SendCall(p) =>
                IF s.rest = {} THEN t = NextEntry(s) /\ sends' = sends
                ELSE \E x \in sends' \ sends :
                       x.chat \in s.rest /\ x.rec = s.newItems[s.k].dbId]_vars

\* the message for a row is on its way to the second recipient after the send
\* of the same row to the first was rejected and the first was evicted
SecondRecipientAfterRejection ==
  \E p \in Periodic : \E c \in Chats :
    /\ sweep[p].pc = "awaitSend" /\ sweep[p].chatId # c /\ sweep[p].rest = {}
    /\ c \in sweep[p].subscribers
    /\ cmds = 2 /\ <<c, GlobalSet>> \in joined /\ c \notin chatIds
    /\ \E x, y \in sends :
         /\ x.chat = c /\ y.chat = sweep[p].chatId
         /\ x.rec = y.rec /\ x.by = sweep[p].run /\ y.by = sweep[p].run

\* C28: the ledger's lifecycle.  No step removes a row or changes a row's id,
\* guid, title, link or feed; a row's sent flag never goes back from 1 to 0; and
\* a flag that goes from 0 to 1 does so in a step that records a successful
\* claim of that row's own id.
LedgerLifecycle ==
  [][/\ Len(db') >= Len(db)
     /\ \A i \in 1..Len(db) :
          /\ db'[i].id = i
          /\ [db'[i] EXCEPT !.isSent = 0] = [db[i] EXCEPT !.isSent = 0]
          /\ db'[i].isSent >= db[i].isSent
          /\ db'[i].isSent # db[i].isSent =>
               \E c \in claims' \ claims : c.rec = i /\ c.marked /\ c.was = 0]_vars

\* two rows are marked, each by a claim of its own id in a different run, and a
\* third row with the link of one of them in another spelling is still unsent
TwoClaimedOneUntouched ==
  \E c1, c2 \in claims :
    /\ c1.rec # c2.rec /\ c1.by # c2.by /\ c1.marked /\ c2.marked
    /\ db[c1.rec].isSent = 1 /\ db[c2.rec].isSent = 1
    /\ \E i \in 1..Len(db) :
         /\ i # c1.rec
         /\ db[i].isSent = 0
         /\ normalizeLink(db[i].link) = normalizeLink(db[c1.rec].link)

\* the rows that look like an item: the same normalized link, when the item has
\* a link, or the same normalized title, when the title has more than
\* TitleMinLen characters
LookAlikes(tbl, title, link) ==
  {i \in 1..Len(tbl) :
     \/ /\ ~Falsy(link) /\ trim(link) # NoStr
        /\ normalizeLink(tbl[i].link) = normalizeLink(link)
     \/ /\ ~Falsy(title) /\ Len(title) > TitleMinLen
        /\ normalizeTitle(tbl[i].title) = normalizeTitle(title)}

\* C29: hygiene after a claim.  When a step of a periodic sweep or of an
\* on-demand sweep claims a row for an item, every row with the item's
\* normalized link, or with its normalized title when that is longer than
\* TitleMinLen characters, is marked sent after the step.
HygieneAfterClaim ==
  [][/\ \A p \in Periodic :
          ClaimItem(p) /\ sweep'[p].pc = "send" =>
            LET e == sweep[p].newItems[sweep[p].k]
            IN  \A i \in LookAlikes(db', e.title, e.link) : db'[i].isSent = 1
     /\ \A m \in Manual :
          ManualItem(m) /\ sweep'[m].pc = "awaitSend" =>
            LET item == sweep[m].items[sweep[m].i]
            IN  \A i \in LookAlikes(db', OrElse(item.title, NoTitle),
                                    OrElse(item.link, NoStr)) : db'[i].isSent = 1]_vars

\* the stored access token has not reached the refresh margin
StoredAccessFresh ==
  /\ ~Falsy(settings.reddit_access_token)
  /\ settings.reddit_access_expires_at # 0
  /\ now < settings.reddit_access_expires_at - ExpiryMargin

\* C30: with no refresh token on file getRedditAccessToken returns null, also
\* while a stored access token has not expired: the fetch that asked for the
\* token sends no refresh request and no other request, ends with no items and
\* leaves the settings and the ledger as they were.
NoRefreshTokenNoToken ==
  [][\A p \in Procs :
       FetchReddit(p) /\ Falsy(settings.reddit_refresh_token) =>
         /\ TokenOnFile(settings, now) = "none"
         /\ settings' = settings /\ db' = db
         /\ sweep'[p] = NextFeed(sweep[p])
         /\ sweep'[p].pc \notin {"refresh", "me", "listing", "aborted"}
         /\ sweep'[p].token = NoStr]_vars

\* a sweep has gone through all feeds and stored nothing while a fresh access
\* token and no refresh token were on file
SweepEndedWithAccessOnly ==
  /\ Falsy(settings.reddit_refresh_token) /\ StoredAccessFresh
  /\ sweep["p1"].pc = "idle" /\ sweep["p1"].run >= 1
  /\ db = <<>>

\* the state of the token manager: no refresh token on file, a refresh token
\* with a stored access token short of the margin, or a refresh token without
TokenState(st, t) ==
  CASE TokenOnFile(st, t) = "none" -> "NoToken"
    [] TokenOnFile(st, t) = "stored" -> "Valid"
    [] OTHER -> "Expired"

\* the refresh token changes only when an accepted /reddit_code answer brings
\* one, to the one it brings, and when /reddit_logout removes it
RefreshTokenOwners ==
  settings'.reddit_refresh_token # settings.reddit_refresh_token =>
    \/ \E c \in Chats : \E data \in ExchangeResponses :
         /\ ExchangeReturn(c, data) /\ data.ok /\ ~Falsy(data.refresh_token)
         /\ settings'.reddit_refresh_token = data.refresh_token
    \/ \E c \in Chats : CmdRedditLogout(c) /\ Falsy(settings'.reddit_refresh_token)

\* the steps that take the token manager from Valid to Expired, from Expired to
\* Valid by a refresh, and from any state to NoToken
TimeRefreshLogout(from, to) ==
  \/ from = "Valid" /\ to = "Expired" /\ now' = now + 1
  \/ /\ from = "Expired" /\ to = "Valid"
     /\ \E p \in Procs : \E data \in RefreshResponses : RefreshReturn(p, data) /\ data.ok
  \/ to = "NoToken" /\ \E c \in Chats : CmdRedditLogout(c)

\* C31 as stated: the refresh token is created by an accepted setup answer and
\* removed by logout only, and the token manager changes state only from
\* NoToken to Valid by a completed setup, from Valid to Expired as time passes,
\* from Expired to Valid by a successful refresh, and to NoToken by logout.
TokenMachineAsStated ==
  [][LET from == TokenState(settings, now)
         to == TokenState(settings', now')
     IN  /\ RefreshTokenOwners
         /\ from # to =>
              \/ TimeRefreshLogout(from, to)
              \/ /\ from = "NoToken" /\ to = "Valid"
                 /\ \E c \in Chats : \E data \in ExchangeResponses :
                      ExchangeReturn(c, data) /\ data.ok]_vars

\* C31: the refresh token is created by an accepted setup answer and removed by
\* logout only, and the token manager changes state only to Valid by a
\* completed setup (from NoToken and from Expired alike), from Valid to Expired
\* as time passes, from Expired to Valid by a successful refresh, and to NoToken
\* by logout.
TokenMachine ==
  [][LET from == TokenState(settings, now)
         to == TokenState(settings', now')
     IN  /\ RefreshTokenOwners
         /\ from # to =>
              \/ TimeRefreshLogout(from, to)
              \/ /\ to = "Valid"
                 /\ \E c \in Chats : \E data \in ExchangeResponses :
                      ExchangeReturn(c, data) /\ data.ok]_vars

\* a refresh that began in the Expired state is still in flight and a completed
\* setup has made the token manager Valid under its own refresh token
SetupOvertookRefresh ==
  /\ sweep["p1"].pc = "refresh"
  /\ settings.reddit_refresh_token \in {<<"r", "2">>, <<"r", "3">>}
  /\ TokenState(settings, now) = "Valid"

\* C32: /reddit_setup of chat c.  With the three secrets set it leaves exactly
\* one pending state for c, whatever c had pending before, leaves the pending
\* states of the other chats as they were and changes no credential field;
\* with one of the secrets missing it leaves the pending states and the
\* credential fields as they were.
BeginSetupContract ==
  [][\A c \in Chats :
       CmdRedditSetup(c) =>
         /\ settings' = settings
         /\ IF env.REDDIT_CLIENT_ID /\ env.REDDIT_CLIENT_SECRET /\ env.REDDIT_REDIRECT_URI
            THEN /\ Cardinality({x \in redditStates' : x[1] = c}) = 1
                 /\ \E state \in AuthStates : <<c, state>> \in redditStates'
                 /\ {x \in redditStates' : x[1] # c} = {x \in redditStates : x[1] # c}
            ELSE redditStates' = redditStates]_vars

\* three /reddit_setup commands have left one pending state for each of the
\* two chats: the earlier state of one of them was replaced
SetupTwiceOnePending ==
  /\ cmds = 3 /\ Pending(redditStates) = Chats
  /\ Cardinality(redditStates) = 2

\* C33: /follow of chat c with a text that, trimmed and in lower case, is the
\* name of a configured feed trimmed and in lower case adds c to the set under
\* that name and leaves the global set and every other set as they were; with
\* any other text the registry stays as it was.
FollowContract ==
  [][\A c \in Chats : \A text \in FollowSpellings[c] :
       CmdFollow(c, text) =>
         LET key == toLowerCase(trim(text))
             matches == \E n \in 1..Len(rssFeeds) :
                          toLowerCase(trim(rssFeeds[n].name)) = key
         IN  /\ chatIds' = chatIds
             /\ IF matches
                THEN /\ key \in DOMAIN feedSubscribers'
                     /\ feedSubscribers'[key] = specificSubs(feedSubscribers, key) \cup {c}
                     /\ \A k \in (DOMAIN feedSubscribers \cup DOMAIN feedSubscribers') \ {key} :
                          specificSubs(feedSubscribers', k) = specificSubs(feedSubscribers, k)
                ELSE feedSubscribers' = feedSubscribers]_vars

\* the two chats followed the first feed, each under its own spelling of the
\* name, and are in one set; nobody is in the global set or in another set
TwoSpellingsOneSet ==
  /\ cmds = 2 /\ chatIds = {}
  /\ DOMAIN feedSubscribers = {<<"g">>}
  /\ feedSubscribers[<<"g">>] = Chats

\* C34: the claim precedes the send.  In every step that hands a message for a
\* row to bot.sendMessage, in either sweep, the row is marked sent and the
\* history holds a claim of that row by the sending invocation that reported
\* true; in the periodic sweep the row was marked and the claim made before the
\* step.
ClaimPrecedesSend ==
  [][\A x \in sends' \ sends :
       /\ x.rec \in 1..Len(db') /\ db'[x.rec].isSent = 1
       /\ \E c \in claims' : c.rec = x.rec /\ c.by = x.by /\ c.marked /\ c.was = 0
       /\ x.proc \in Periodic =>
            /\ x.rec \in 1..Len(db) /\ db[x.rec].isSent = 1
            /\ \E c \in claims : c.rec = x.rec /\ c.by = x.by /\ c.marked]_vars

\* a periodic sweep and an on-demand sweep each wait for the send of a row of
\* their own, which each of them claimed
TwoSweepsTwoRowsInFlight ==
  \E p \in Periodic, m \in Manual :
    /\ sweep[p].pc = "awaitSend" /\ sweep[m].pc = "awaitSend"
    /\ \E x, y \in sends :
         /\ x.by = sweep[p].run /\ y.by = sweep[m].run /\ x.rec # y.rec
         /\ db[x.rec].isSent = 1 /\ db[y.rec].isSent = 1
         /\ \E c, d \in claims :
              /\ c.rec = x.rec /\ c.by = x.by /\ c.marked
              /\ d.rec = y.rec /\ d.by = y.by /\ d.marked

\* C35: no send to a removed chat.  Every message a periodic sweep hands to
\* bot.sendMessage is addressed to a chat that is in the global set or in some
\* per-feed set at that moment.
NoSendToRemovedChat ==
  [][\A x \in sends' \ sends :
       x.proc \in Periodic =>
         x.chat \in chatIds \cup UNION {feedSubscribers[k] : k \in DOMAIN feedSubscribers}]_vars

\* every message an on-demand sweep has sent is the only message for its row,
\* and the row was claimed by that sweep
OnDemandRowsSentOnce ==
  \A x \in sends :
    x.proc \in Manual =>
      /\ \A y \in sends : y.rec = x.rec => y = x
      /\ \E c \in claims : c.rec = x.rec /\ c.by = x.by /\ c.marked

\* the messages an on-demand sweep hands to bot.sendMessage are addressed to
\* the chat that sent /news, in the registry or not
OnDemandSendsToRequester ==
  \A m \in Manual :
    ManualItem(m) => \A x \in sends' \ sends : x.chat = sweep[m].chatId /\ x.proc = m

\* C36: a row claimed by the on-demand sweep of a chat is sent to that chat and
\* to no other, whether or not the chat or anybody else is subscribed, and no
\* sweep of either kind sends the row again.
OnDemandClaimIsExclusive == []OnDemandRowsSentOnce /\ [][OnDemandSendsToRequester]_vars

\* a chat outside the registry was sent a row by its on-demand sweep; a later
\* periodic sweep has ended that sent another row to the subscribed chat and
\* not this one
RequesterOnlyDespiteSubscriber ==
  \E x, y \in sends : \E p \in Periodic :
    /\ x.proc \in Manual /\ x.chat \notin chatIds /\ \A j \in joined : j[1] # x.chat
    /\ y.proc = p /\ y.chat \in chatIds /\ y.rec # x.rec /\ y.by > x.by
    /\ sweep[p].pc = "idle" /\ sweep[p].run = y.by

\* C37: a /reddit_code of chat c changes a credential field only while a state
\* recorded by a /reddit_setup of c is pending.
SetupNeedsPendingState ==
  [][\A c \in Chats : \A data \in ExchangeResponses :
       (ExchangeReturn(c, data) /\ settings' # settings) =>
         c \in Pending(redditStates)]_vars

\* the lifetime a token response gives its access token
LifetimeOf(data) == IF data.expires_in = 0 THEN DefaultLifetime ELSE data.expires_in

\* the token responses that were accepted with an access token
TokenResponses ==
  {[access_token |-> data.access_token, lifetime |-> LifetimeOf(data)] :
     data \in {d \in RefreshResponses : d.ok}}
  \cup {[access_token |-> data.access_token, lifetime |-> LifetimeOf(data)] :
          data \in {d \in ExchangeResponses : d.ok}}

\* the stored access token and expiry are those of the initial credential, or
\* none, or the token of one response with the expiry that response gave it at
\* some moment up to now
TokenAndExpiryPaired ==
  \/ Falsy(settings.reddit_access_token) /\ settings.reddit_access_expires_at = 0
  \/ \E st \in Configured :
       /\ settings.reddit_access_token = st.reddit_access_token
       /\ settings.reddit_access_expires_at = st.reddit_access_expires_at
  \/ \E r \in TokenResponses : \E t \in 0..now :
       /\ settings.reddit_access_token = r.access_token
       /\ settings.reddit_access_expires_at = t + r.lifetime

\* a step that changes the stored access token or the stored expiry writes
\* both from the response it handles, at the time it handles it, or removes both
TokenAndExpiryWrittenTogether ==
  (\/ settings'.reddit_access_token # settings.reddit_access_token
   \/ settings'.reddit_access_expires_at # settings.reddit_access_expires_at) =>
    \/ \E p \in Procs : \E data \in RefreshResponses :
         /\ RefreshReturn(p, data) /\ data.ok
         /\ settings'.reddit_access_token = data.access_token
         /\ settings'.reddit_access_expires_at = now + LifetimeOf(data)
    \/ \E c \in Chats : \E data \in ExchangeResponses :
         /\ ExchangeReturn(c, data) /\ data.ok
         /\ settings'.reddit_access_token = data.access_token
         /\ settings'.reddit_access_expires_at = now + LifetimeOf(data)
    \/ /\ \E c \in Chats : CmdRedditLogout(c)
       /\ Falsy(settings'.reddit_access_token)
       /\ settings'.reddit_access_expires_at = 0

\* C38: under every interleaving of token refreshes, setups and logouts the
\* stored access token and the stored expiry come from one token response.
AccessTokenMatchesExpiry ==
  []TokenAndExpiryPaired /\ [][TokenAndExpiryWrittenTogether]_vars

\* two refreshes overlapped: one has stored its token, which is still short of
\* the margin, while the other sweep's refresh request is in flight
OverlappingRefreshes ==
  \E p, q \in {"p1", "m1"} :
    /\ p # q /\ sweep[p].pc = "refresh" /\ sweep[q].run >= 1
    /\ settings.reddit_access_token \in {<<"a", "1">>, <<"a", "2">>}
    /\ TokenOnFile(settings, now) = "stored"

\* the access tokens the token endpoint may have issued for a refresh token:
\* the one that came with it and those of the refresh responses
IssuedFor(refreshToken) ==
  IF Falsy(refreshToken) THEN {}
  ELSE {d.access_token : d \in {r \in RefreshResponses : r.ok}}
       \cup {st.reddit_access_token :
               st \in {c \in Configured : c.reddit_refresh_token = refreshToken}}
       \cup {d.access_token :
               d \in {r \in ExchangeResponses : r.ok /\ r.refresh_token = refreshToken}}

\* C39: the cached username belongs to the credential on file.  A username is
\* cached only while a refresh token is on file, and a lookup that caches its
\* result made its request with an access token issued for the refresh token
\* that is on file when the result is cached.
UsernameOfCurrentCredential ==
  [][/\ ~Falsy(settings'.reddit_username) => ~Falsy(settings'.reddit_refresh_token)
     /\ \A p \in Procs : \A data \in MeResponses :
          (MeReturn(p, data) /\ data.ok /\ ~Falsy(data.name)) =>
            sweep[p].token \in IssuedFor(settings.reddit_refresh_token)]_vars
====
